---- MODULE Spec2Model ----
(***************************************************************************)
(* Model of the Pomodoro session controller (src/src/pages/Pomodoro.tsx)   *)
(* and of the pomodoro_sessions table it writes to.                        *)
(*                                                                         *)
(* The component is a React function component: every handler is a closure *)
(* over the state of the render it was created in.  The button handlers    *)
(* are replaced on every render and the keydown listener is re-registered  *)
(* whenever isRunning or sessionId changes, so a handler invoked by the    *)
(* user reads the committed isRunning and sessionId.  An async handler     *)
(* keeps the values it captured across its awaits: each call in flight is  *)
(* an element of the bag inflight, and the code after an await is a        *)
(* separate action.  A state update is committed together with the tick    *)
(* effect it triggers (Render).                                            *)
(***************************************************************************)
EXTENDS Integers, Sequences, FiniteSets, Bags, TLC

VARIABLES
    user,               \* supabase.auth.getUser(): NoUser or the user's id
    mounted,            \* the Pomodoro page is mounted
    timeLeft,           \* useState(duration)
    isRunning,          \* useState(false)
    interval,           \* intervalRef.current holds a live setInterval timer
    sessionId,          \* useState<string | null>(null)
    sessions,           \* useState<any[]>([]): today's sessions, as loaded
    toasts,             \* title of the last toast shown
    pomodoro_sessions,  \* the table: row i has id i
    inflight,           \* bag of async calls waiting at an await
    rowsSinceIdle,      \* history: rows inserted for the controller since it
                        \* was last mounted, reset or completed
    recording,          \* the two histories below and pair are recorded (in
                        \* the specifications whose claims read them)
    afterReset,         \* history: resetTimer was invoked and toggleTimer has not been since
    abandoned,          \* history: ids of the rows resetTimer left open when it cleared sessionId
    ownRows,            \* history: ids of the rows the mounted controller inserted
    last,               \* history: the last step taken and the state it started from
    exams,              \* the exams table: row i has id i
    tasks,              \* the tasks table: row i has id i
    now,                \* the wall clock, as new Date() or Date.now() last read it
    notifications,      \* Header: useState<Notification[]>([])
    unreadCount,        \* Header: useState(0)
    npass,              \* Header: the loadNotifications() call of this mount
    dismissed,          \* history: the id last dismissed, in this mount or an earlier one
    hlast,              \* history: the last Header step, what it read and the list it started from
    stats,              \* Dashboard: useState({totalTasks, completedToday, ...})
    schedule,           \* Dashboard: useState<ScheduleItem[]>([])
    dpass,              \* Dashboard: the loadDashboardData() call of this mount
    notes,              \* the notes table: row i has id i
    route,              \* the page shown: Tasks, Notes, Exams, or another one
    list,               \* the page's useState<Task[] | Note[] | Exam[]>([])
    open,               \* the page's useState(false): the dialog is open
    formData,           \* the page's useState({title: "", ...})
    notice,             \* title of the last toast the page showed
    calls,              \* bag of the page's async calls waiting at an await
    glast,              \* history: the last step of the page and the state it started from
    pair,               \* history: the toggles of the row toggled first
    access              \* history: the last request to the database and what it returned

\* The state of the Pomodoro page and of its table.
pvars == <<recording, mounted, timeLeft, isRunning, interval, sessionId, sessions, toasts,
           pomodoro_sessions, inflight, rowsSinceIdle, afterReset, abandoned,
           ownRows, last>>

\* The tables read by the Header and the Dashboard, and the clock.
dbvars == <<exams, tasks, now>>

\* The state of the Header.
hvars == <<notifications, unreadCount, npass, dismissed, hlast>>

\* The state of the Dashboard.
dvars == <<stats, schedule, dpass>>

\* The state of the Tasks, Notes or Exams page, with the notes table.
gvars == <<notes, route, list, open, formData, notice, calls, glast, pair, access>>

vars == <<user, pvars, dbvars, hvars, dvars, gvars>>

(* ---------------------------------------------------------------- bounds *)

\* The countdown length in seconds. The program starts from 25 * 60; the
\* model counts down from a short duration so that zero is reached.
duration == 3
\* Rows the table can hold (inserts that can be issued).
MaxRows == 2
\* Async calls that can be waiting at an await at once.
MaxInflight == 2
\* Clock units in a day: the clock of the model counts fractions of a day.
DAY == 2
\* Rows the exams and tasks tables hold together.
MaxTableRows == 3
\* The row limit of the notification queries.  The program asks for 5 rows;
\* the model asks for fewer, so that a table within MaxTableRows holds more
\* qualifying rows than the limit.
QueryLimit == 2
\* Rows the exams and tasks tables hold together when the Header and the
\* Dashboard run side by side.
PagesRows == 1

\* The most rows the tables hold together when two users make requests.
AccessRows == 2

(* ------------------------------------------------------------- constants *)

\* sessionId is null or the id of a row; rows have the ids 1, 2, ...
NULL == 0
NoUser == "none"
User1 == "u1"
\* sevenDaysFromNow.setDate(sevenDaysFromNow.getDate() + 7)
Week == 7
\* tasks.due_date and tasks.course are nullable
NoDate == -1
NoCourse == "null"

(* ----------------------------------------------------------------- calls *)

\* A call waiting at an await: the handler, the await it is at, what it
\* captured (the session id of its render, the user it got), and whether the
\* component that made it is still mounted.
Call(op, pc, sid, uid, live) ==
    [op |-> op, pc |-> pc, sid |-> sid, uid |-> uid, live |-> live]

One(c) == SetToBag({c})

\* The number of calls of handler op in the bag B.
Count(B, op) ==
    LET S == {c \in BagToSet(B) : c.op = op}
        RECURSIVE Sum(_)
        Sum(T) == IF T = {} THEN 0
                  ELSE LET c == CHOOSE x \in T : TRUE
                       IN  CopiesIn(c, B) + Sum(T \ {c})
    IN  Sum(S)

\* Unmounting does not cancel a call in flight: its writes still happen, its
\* state updates go to a component that no longer exists.
Orphan(B) ==
    LET D == {[c EXCEPT !.live = FALSE] : c \in BagToSet(B)}
    IN  [d \in D |-> CopiesIn(d, B) + CopiesIn([d EXCEPT !.live = TRUE], B)]

(* ------------------------------------------------------------ the table *)

\* insert({user_id, duration: Math.floor(duration / 60), completed: false})
NewRow(uid) ==
    [user_id |-> uid, duration |-> duration \div 60,
     completed |-> FALSE, completed_at |-> "null"]

\* Faulty variant: the update without completed_at.
UpdateCompleted_NoStamp(rows, sid) ==
    [i \in DOMAIN rows |->
        IF i = sid THEN [rows[i] EXCEPT !.completed = TRUE] ELSE rows[i]]

\* update({completed: true, completed_at: new Date().toISOString()}).eq("id", sid)
UpdateCompleted(rows, sid) ==
    [i \in DOMAIN rows |->
        IF i = sid THEN [rows[i] EXCEPT !.completed = TRUE, !.completed_at = "now"]
        ELSE rows[i]]

RECURSIVE Reverse(_)
Reverse(s) == IF s = <<>> THEN <<>> ELSE Append(Reverse(Tail(s)), Head(s))

\* select("*").eq("user_id", uid).order("started_at", {ascending: false})
SelectSessions(rows, uid) ==
    Reverse(SelectSeq([i \in DOMAIN rows |-> [id |-> i, completed |-> rows[i].completed,
                                              user_id |-> rows[i].user_id]],
                      LAMBDA r : r.user_id = uid))

(* ----------------------------------------------------------- controller *)

\* The step being taken and the state it starts from.
Snap(op, c) ==
    [op |-> op, sid |-> c.sid, live |-> c.live,
     isRunning |-> isRunning, timeLeft |-> timeLeft, sessionId |-> sessionId,
     rows |-> pomodoro_sessions, inflight |-> inflight]

NoCall == Call("none", "none", NULL, NoUser, TRUE)

\* The update write of a completeSession() call, waiting for its answer.
CompleteCall(sid) == Call("completeSession", "update", sid, NoUser, TRUE)

\* Faulty variant: completeSession without its guard on sessionId.
completeSession_NoGuard(sid, B) == B (+) One(CompleteCall(sid))

\* completeSession up to its await: if (!sessionId) return; otherwise the
\* update write is issued for the session id of the calling render.
completeSession(sid, B) ==
    IF sid = NULL THEN B
    ELSE B (+) One(CompleteCall(sid))

\* Faulty variant: the effect without its completion branch.
TickEffect_NeverCompletes(r, t, s, B) == B

\* Faulty variant: the effect with deps [timeLeft] only.
TickEffect_TimeLeftOnly(r, t, s, B) ==
    IF t # timeLeft /\ r /\ t = 0
    THEN completeSession(s, B)
    ELSE B

\* The tick effect, deps [isRunning, timeLeft]: it runs again when one of them
\* changed; with isRunning and timeLeft = 0 it calls completeSession() of the
\* new render (with isRunning and timeLeft > 0 it sets the interval, which is
\* what enables Tick).
TickEffect(r, t, s, B) ==
    IF (r # isRunning \/ t # timeLeft) /\ r /\ t = 0
    THEN completeSession(s, B)
    ELSE B

\* Faulty variant: the effect without its cleanup, so that a timer once set
\* is never cleared.
IntervalEffect_NoCleanup(r, t, iv) == iv \/ (r /\ t > 0)

\* The timer the tick effect leaves behind.  When isRunning or timeLeft
\* changed, the cleanup of the previous run clears the timer and the new run
\* sets one if isRunning and timeLeft > 0; otherwise the effect does not run
\* and the timer stays as the handler left it (iv).
IntervalEffect(r, t, iv) ==
    IF r # isRunning \/ t # timeLeft THEN r /\ t > 0 ELSE iv

\* Commit a state update and run the effect; iv tells whether the handler
\* left the timer alive.
Commit(r, t, s, B, iv) ==
    /\ isRunning' = r
    /\ timeLeft' = t
    /\ sessionId' = s
    /\ interval' = IntervalEffect(r, t, iv)
    /\ inflight' = TickEffect(r, t, s, B)
    /\ BagCardinality(inflight') <= MaxInflight

\* A state update by a handler that does not touch the timer itself.
Render(r, t, s, B) == Commit(r, t, s, B, interval)

\* The rows left open so far, with the row of the session id being cleared if
\* it is an open row: one the write of this step, if any, has not completed.
Abandon(sid) ==
    IF recording /\ sid # NULL /\ ~pomodoro_sessions'[sid].completed
    THEN abandoned \cup {sid}
    ELSE abandoned

\* Faulty variant: a reset that marks the open session completed.
resetTimer_Completes(B) ==
    /\ Render(FALSE, duration, NULL, completeSession(sessionId, B))
    /\ rowsSinceIdle' = 0
    /\ afterReset' = recording
    /\ abandoned' = Abandon(sessionId)

\* Faulty variant: a reset without setIsRunning(false).
resetTimer_KeepsRunning(B) ==
    /\ Render(isRunning, duration, NULL, B)
    /\ rowsSinceIdle' = 0
    /\ afterReset' = recording
    /\ abandoned' = Abandon(sessionId)

\* resetTimer: setIsRunning(false); setTimeLeft(duration); setSessionId(null);
\* clearInterval(intervalRef.current)
resetTimer(B) ==
    /\ Commit(FALSE, duration, NULL, B, FALSE)
    /\ rowsSinceIdle' = 0
    /\ afterReset' = recording
    /\ abandoned' = Abandon(sessionId)

\* Faulty variant: toggleTimer starting a session whenever the countdown is stopped.
toggleTimer_NoSessionCheck ==
    IF ~isRunning
    THEN /\ Len(pomodoro_sessions) + Count(inflight, "toggleTimer") < MaxRows
         /\ BagCardinality(inflight) < MaxInflight
         /\ inflight' = inflight (+) One(Call("toggleTimer", "getUser", NULL, NoUser, TRUE))
         /\ UNCHANGED <<timeLeft, isRunning, interval, sessionId, rowsSinceIdle>>
         /\ afterReset' = FALSE
         /\ UNCHANGED abandoned
    ELSE /\ Render(~isRunning, timeLeft, sessionId, inflight)
         /\ UNCHANGED rowsSinceIdle
         /\ afterReset' = FALSE
         /\ UNCHANGED abandoned

\* toggleTimer up to its first await.
toggleTimer ==
    IF ~isRunning /\ sessionId = NULL
    THEN /\ Len(pomodoro_sessions) + Count(inflight, "toggleTimer") < MaxRows
         /\ BagCardinality(inflight) < MaxInflight
         /\ inflight' = inflight (+) One(Call("toggleTimer", "getUser", NULL, NoUser, TRUE))
         /\ UNCHANGED <<timeLeft, isRunning, interval, sessionId, rowsSinceIdle>>
         /\ afterReset' = FALSE
         /\ UNCHANGED abandoned
    ELSE /\ Render(~isRunning, timeLeft, sessionId, inflight)
         /\ UNCHANGED rowsSinceIdle
         /\ afterReset' = FALSE
         /\ UNCHANGED abandoned

(* --------------------------------------------------------------- actions *)

\* The play/pause button: onClick={toggleTimer}.
ClickToggle ==
    /\ mounted
    /\ toggleTimer
    /\ last' = Snap("toggleTimer", NoCall)
    /\ UNCHANGED <<user, mounted, sessions, toasts, pomodoro_sessions, ownRows>>
    /\ UNCHANGED <<recording, dbvars, hvars, dvars, gvars>>

\* The reset button: onClick={resetTimer}.
ClickReset ==
    /\ mounted
    /\ UNCHANGED <<user, mounted, sessions, toasts, pomodoro_sessions, ownRows>>
    /\ resetTimer(inflight)
    /\ last' = Snap("resetTimer", NoCall)
    /\ UNCHANGED <<recording, dbvars, hvars, dvars, gvars>>

\* The keydown listener: Space toggles, R resets, any other key does nothing.
handleKeyPress(code) ==
    /\ mounted
    /\ code \in {"Space", "KeyR"}
    /\ UNCHANGED <<user, mounted, sessions, toasts, pomodoro_sessions, ownRows>>
    /\ IF code = "Space"
       THEN toggleTimer /\ last' = Snap("toggleTimer", NoCall)
       ELSE resetTimer(inflight) /\ last' = Snap("resetTimer", NoCall)
    /\ UNCHANGED <<recording, dbvars, hvars, dvars, gvars>>

\* The interval callback: setTimeLeft((prev) => prev - 1).  It fires while
\* the timer set by the tick effect is alive.
Tick ==
    /\ mounted
    /\ interval
    /\ Render(isRunning, timeLeft - 1, sessionId, inflight)
    /\ last' = Snap("tick", NoCall)
    /\ UNCHANGED <<user, mounted, sessions, toasts, pomodoro_sessions, rowsSinceIdle, afterReset,
                   abandoned, ownRows>>
    /\ UNCHANGED <<recording, dbvars, hvars, dvars, gvars>>

\* toggleTimer after await getUser(): if (!user) return; else the insert is issued.
ToggleGotUser(c) ==
    /\ c.op = "toggleTimer" /\ c.pc = "getUser"
    /\ inflight' = IF user = NoUser THEN inflight (-) One(c)
                   ELSE (inflight (-) One(c)) (+) One([c EXCEPT !.pc = "insert", !.uid = user])
    /\ last' = Snap(IF user = NoUser THEN "toggleTimer.nouser" ELSE "toggleTimer.insert", c)
    /\ UNCHANGED <<user, mounted, timeLeft, isRunning, interval, sessionId, sessions, toasts,
                   pomodoro_sessions, rowsSinceIdle, afterReset,
                   abandoned, ownRows>>
    /\ UNCHANGED <<recording, dbvars, hvars, dvars, gvars>>

\* Faulty variant: the error branch without its return, falling through to
\* setIsRunning(!isRunning).
InsertFailed_NoReturn(c) ==
    /\ toasts' = "Error starting session"
    /\ last' = Snap("toggleTimer.error", c)
    /\ IF c.live
       THEN Render(TRUE, timeLeft, sessionId, inflight (-) One(c))
       ELSE /\ inflight' = inflight (-) One(c)
            /\ UNCHANGED <<timeLeft, isRunning, interval, sessionId>>
    /\ UNCHANGED <<pomodoro_sessions, rowsSinceIdle, afterReset,
                   abandoned, ownRows>>

\* toggleTimer after the insert failed: a toast, and return.
InsertFailed(c) ==
    /\ toasts' = "Error starting session"
    /\ inflight' = inflight (-) One(c)
    /\ last' = Snap("toggleTimer.error", c)
    /\ UNCHANGED <<timeLeft, isRunning, interval, sessionId, pomodoro_sessions,
                   rowsSinceIdle, afterReset,
                   abandoned, ownRows>>

\* toggleTimer after the insert succeeded: setSessionId(data.id);
\* setIsRunning(!isRunning), isRunning being the false the call captured.
InsertSucceeded(c) ==
    /\ pomodoro_sessions' = Append(pomodoro_sessions, NewRow(c.uid))
    /\ last' = Snap("toggleTimer.ok", c)
    /\ UNCHANGED toasts
    /\ IF c.live
       THEN /\ Render(TRUE, timeLeft, Len(pomodoro_sessions) + 1, inflight (-) One(c))
            /\ rowsSinceIdle' = rowsSinceIdle + 1
            /\ UNCHANGED <<afterReset, abandoned>>
            /\ ownRows' = ownRows \cup {Len(pomodoro_sessions) + 1}
       ELSE /\ inflight' = inflight (-) One(c)
            /\ UNCHANGED <<timeLeft, isRunning, interval, sessionId, rowsSinceIdle, afterReset,
                   abandoned, ownRows>>

\* The insert of a toggleTimer call is answered.
ToggleInserted(c, ok) ==
    /\ c.op = "toggleTimer" /\ c.pc = "insert"
    /\ IF ok THEN InsertSucceeded(c) ELSE InsertFailed(c)
    /\ UNCHANGED <<user, mounted, sessions>>
    /\ UNCHANGED <<recording, dbvars, hvars, dvars, gvars>>

\* Faulty variant: a failed completion that resets the timer all the same.
CompleteFailed_Resets(c) ==
    /\ toasts' = "Error completing session"
    /\ UNCHANGED pomodoro_sessions
    /\ last' = Snap("completeSession.error", c)
    /\ IF c.live
       THEN resetTimer(inflight (-) One(c))
       ELSE /\ inflight' = inflight (-) One(c)
            /\ UNCHANGED <<timeLeft, isRunning, interval, sessionId, rowsSinceIdle, afterReset,
                   abandoned>>

\* completeSession after the update failed: a toast, nothing else.
CompleteFailed(c) ==
    /\ toasts' = "Error completing session"
    /\ inflight' = inflight (-) One(c)
    /\ last' = Snap("completeSession.error", c)
    /\ UNCHANGED <<timeLeft, isRunning, interval, sessionId, pomodoro_sessions, rowsSinceIdle, afterReset,
                   abandoned>>

\* Faulty variant: a successful completion without resetTimer().
CompleteSucceeded_NoReset(c) ==
    /\ pomodoro_sessions' = UpdateCompleted(pomodoro_sessions, c.sid)
    /\ toasts' = "Session completed!"
    /\ last' = Snap("completeSession.ok", c)
    /\ inflight' = (inflight (-) One(c))
                        (+) One(Call("loadSessions", "getUser", NULL, NoUser, c.live))
    /\ UNCHANGED <<timeLeft, isRunning, interval, sessionId, rowsSinceIdle, afterReset,
                   abandoned>>

\* completeSession after the update succeeded: a toast, resetTimer() and
\* loadSessions().
CompleteSucceeded(c) ==
    /\ pomodoro_sessions' = UpdateCompleted(pomodoro_sessions, c.sid)
    /\ toasts' = "Session completed!"
    /\ last' = Snap("completeSession.ok", c)
    /\ LET B == (inflight (-) One(c))
                (+) One(Call("loadSessions", "getUser", NULL, NoUser, c.live))
       IN  IF c.live
           THEN resetTimer(B)
           ELSE /\ inflight' = B
                /\ UNCHANGED <<timeLeft, isRunning, interval, sessionId, rowsSinceIdle, afterReset,
                   abandoned>>

\* The update of a completeSession call is answered.
CompleteUpdated(c, ok) ==
    /\ c.op = "completeSession"
    /\ IF ok THEN CompleteSucceeded(c) ELSE CompleteFailed(c)
    /\ UNCHANGED <<user, mounted, sessions, ownRows>>
    /\ UNCHANGED <<recording, dbvars, hvars, dvars, gvars>>

\* loadSessions after await getUser(): if (!user) return; else the select is issued.
LoadGotUser(c) ==
    /\ c.op = "loadSessions" /\ c.pc = "getUser"
    /\ inflight' = IF user = NoUser THEN inflight (-) One(c)
                   ELSE (inflight (-) One(c)) (+) One([c EXCEPT !.pc = "select", !.uid = user])
    /\ last' = Snap("loadSessions.user", c)
    /\ UNCHANGED <<user, mounted, timeLeft, isRunning, interval, sessionId, sessions, toasts,
                   pomodoro_sessions, rowsSinceIdle, afterReset,
                   abandoned, ownRows>>
    /\ UNCHANGED <<recording, dbvars, hvars, dvars, gvars>>

\* loadSessions after the select: if (data) setSessions(data).
LoadSelected(c, ok) ==
    /\ c.op = "loadSessions" /\ c.pc = "select"
    /\ inflight' = inflight (-) One(c)
    /\ sessions' = IF ok /\ c.live THEN SelectSessions(pomodoro_sessions, c.uid)
                   ELSE sessions
    /\ last' = Snap("loadSessions.data", c)
    /\ UNCHANGED <<user, mounted, timeLeft, isRunning, interval, sessionId, toasts,
                   pomodoro_sessions, rowsSinceIdle, afterReset,
                   abandoned, ownRows>>
    /\ UNCHANGED <<recording, dbvars, hvars, dvars, gvars>>

\* Leaving the page: the effect cleanups clear the interval and remove the
\* keydown listener; the component's state is gone.
Unmount ==
    /\ mounted
    /\ mounted' = FALSE
    /\ inflight' = Orphan(inflight)
    /\ isRunning' = FALSE /\ timeLeft' = duration /\ sessionId' = NULL
    /\ interval' = FALSE
    /\ sessions' = <<>> /\ rowsSinceIdle' = 0 /\ afterReset' = FALSE /\ ownRows' = {}
    /\ UNCHANGED abandoned
    /\ last' = Snap("unmount", NoCall)
    /\ UNCHANGED <<user, toasts, pomodoro_sessions>>
    /\ UNCHANGED <<recording, dbvars, hvars, dvars, gvars>>

\* Opening the page: fresh state, and the mount effect calls loadSessions().
Mount ==
    /\ ~mounted
    /\ BagCardinality(inflight) < MaxInflight
    /\ mounted' = TRUE
    /\ inflight' = inflight (+) One(Call("loadSessions", "getUser", NULL, NoUser, TRUE))
    /\ last' = Snap("mount", NoCall)
    /\ UNCHANGED <<user, timeLeft, isRunning, interval, sessionId, sessions, toasts,
                   pomodoro_sessions, rowsSinceIdle, afterReset,
                   abandoned, ownRows>>
    /\ UNCHANGED <<recording, dbvars, hvars, dvars, gvars>>

\* The auth session ends or is established.
AuthChange ==
    /\ user' = IF user = NoUser THEN User1 ELSE NoUser
    /\ last' = Snap("auth", NoCall)
    /\ UNCHANGED <<mounted, timeLeft, isRunning, interval, sessionId, sessions, toasts,
                   pomodoro_sessions, inflight, rowsSinceIdle, afterReset,
                   abandoned, ownRows>>
    /\ UNCHANGED <<recording, dbvars, hvars, dvars, gvars>>

\* completeSession() invoked directly on the committed render, as a test of
\* the handler does.
DirectComplete ==
    /\ mounted
    /\ inflight' = completeSession(sessionId, inflight)
    /\ BagCardinality(inflight') <= MaxInflight
    /\ last' = Snap("completeSession", NoCall)
    /\ UNCHANGED <<user, mounted, timeLeft, isRunning, interval, sessionId, sessions, toasts,
                   pomodoro_sessions, rowsSinceIdle, afterReset,
                   abandoned, ownRows>>
    /\ UNCHANGED <<recording, dbvars, hvars, dvars, gvars>>

(* ------------------------------------------------------ tables and clock *)

\* The clock reads 1 at the start and runs for a day.
MaxNow == DAY + 1

\* The timestamps rows carry: the start of the clock, one unit later, and one
\* unit more than a week after the start.  Each is ahead of some readings of
\* the clock, equal to one and behind others.
Dates == {1, 2, Week * DAY + 2}

\* exams(id, user_id, course, title, exam_date NOT NULL): the columns read
\* for their value; course and title are text passed through to the display.
ExamRow == [user_id : {User1}, exam_date : Dates]

\* tasks(id, user_id, title, course, due_date, completed).  The course is
\* text that is read only from open tasks with a due date; the other rows are
\* taken without one.
TaskRow ==
    {r \in [user_id : {User1}, completed : BOOLEAN,
            due_date : Dates \cup {NoDate}, course : {"Math", NoCourse}] :
        (r.completed \/ r.due_date = NoDate) => r.course = NoCourse}

TaskRank(r) ==
    ((r.due_date + 1) * 2 + (IF r.completed THEN 1 ELSE 0)) * 2
        + (IF r.course = NoCourse THEN 0 ELSE 1)

\* Tables of up to n rows.  Ids are opaque, so of the tables that differ only
\* by a renaming of ids one is taken: the one whose rows are in rank order.
ExamTables(n) ==
    {t \in UNION {[1..k -> ExamRow] : k \in 0..n} :
        \A i, j \in DOMAIN t : i < j => t[i].exam_date <= t[j].exam_date}

TaskTables(n) ==
    {t \in UNION {[1..k -> TaskRow] : k \in 0..n} :
        \A i, j \in DOMAIN t : i < j => TaskRank(t[i]) <= TaskRank(t[j])}

Min(a, b) == IF a < b THEN a ELSE b
Max(a, b) == IF a > b THEN a ELSE b

\* Faulty variant: a query without its limit.
Take_All(s, n) == s

\* .limit(n)
Take(s, n) == SubSeq(s, 1, Min(Len(s), n))

\* The orders in which the rows S can come back.
Orderings(S) ==
    {s \in [1..Cardinality(S) -> S] : \A i, j \in DOMAIN s : i # j => s[i] # s[j]}

\* .order(key, {ascending: true}); rows with equal keys come in any order.
Ascending(s, key) == \A i, j \in DOMAIN s : i < j => key[s[i]] <= key[s[j]]

ExamRec(i) == [id |-> i, exam_date |-> exams[i].exam_date]
TaskRec(i) == [id |-> i, due_date |-> tasks[i].due_date,
               completed |-> tasks[i].completed, course |-> tasks[i].course]

ExamRecs(s) == [k \in 1..Len(s) |-> ExamRec(s[k])]
TaskRecs(s) == [k \in 1..Len(s) |-> TaskRec(s[k])]

\* The row-level security policies: a select sees the rows whose user_id is
\* auth.uid(), the user of the session the request is made in.
VisibleExams(auth) == {i \in DOMAIN exams : exams[i].user_id = auth}
VisibleTasks(auth) == {i \in DOMAIN tasks : tasks[i].user_id = auth}

\* A query answered with rows, and a query that failed: {data: null, error}.
Answer(rows) == [ok |-> TRUE, rows |-> rows]
Failed == [ok |-> FALSE, rows |-> <<>>]

\* Faulty variant: the exams query without its filter on exam_date.
ExamsFrom_AnyDate(auth, uid, t) ==
    {i \in VisibleExams(auth) : exams[i].user_id = uid}

\* from("exams").eq("user_id", uid).gte("exam_date", t)
ExamsFrom(auth, uid, t) ==
    {i \in VisibleExams(auth) : exams[i].user_id = uid /\ exams[i].exam_date >= t}

\*     .order("exam_date", {ascending: true}).limit(n): the possible answers
SelectExams(auth, uid, t, n) ==
    LET date == [i \in DOMAIN exams |-> exams[i].exam_date]
    IN  {Answer(ExamRecs(Take(o, n))) :
            o \in {s \in Orderings(ExamsFrom(auth, uid, t)) : Ascending(s, date)}}

\* Faulty variant: completed tasks are not filtered out.
OverdueTasks_AnyCompleted(auth, uid, t) ==
    {i \in VisibleTasks(auth) :
        /\ tasks[i].user_id = uid
        /\ tasks[i].due_date # NoDate /\ tasks[i].due_date < t}

\* from("tasks").eq("user_id", uid).eq("completed", false).lt("due_date", t);
\* a comparison with a null due_date is not true.
OverdueTasks(auth, uid, t) ==
    {i \in VisibleTasks(auth) :
        /\ tasks[i].user_id = uid /\ ~tasks[i].completed
        /\ tasks[i].due_date # NoDate /\ tasks[i].due_date < t}

\*     .limit(n), without an order: any n of the rows, in any order
SelectOverdue(auth, uid, t, n) ==
    {Answer(TaskRecs(Take(o, n))) : o \in Orderings(OverdueTasks(auth, uid, t))}

\* Faulty variant: the upcoming query without its lower bound on due_date.
UpcomingTasks_NoLowerBound(auth, uid, t, until) ==
    {i \in VisibleTasks(auth) :
        /\ tasks[i].user_id = uid /\ ~tasks[i].completed
        /\ tasks[i].due_date # NoDate
        /\ tasks[i].due_date <= until}

\* from("tasks").eq("user_id", uid).eq("completed", false)
\*     .gte("due_date", t).lte("due_date", until)
UpcomingTasks(auth, uid, t, until) ==
    {i \in VisibleTasks(auth) :
        /\ tasks[i].user_id = uid /\ ~tasks[i].completed
        /\ tasks[i].due_date # NoDate
        /\ tasks[i].due_date >= t /\ tasks[i].due_date <= until}

\*     .order("due_date", {ascending: true}).limit(n)
SelectUpcoming(auth, uid, t, until, n) ==
    LET date == [i \in DOMAIN tasks |-> tasks[i].due_date]
    IN  {Answer(TaskRecs(Take(o, n))) :
            o \in {s \in Orderings(UpcomingTasks(auth, uid, t, until)) : Ascending(s, date)}}

\* The readings the clock can give after the reading t: time passes while a
\* call waits at an await.
Later(t) == t..MaxNow

(* ---------------------------------------------------------------- Header *)

\* Math.ceil(x / n) for n > 0
Ceil(x, n) == -((-x) \div n)

\* Math.ceil((new Date(date).getTime() - Date.now()) / (1000 * 60 * 60 * 24))
daysUntil(date, t) == Ceil(date - t, DAY)

\* Faulty variant: ids without the prefix of their source.
NotifId_Raw(source, id) == <<"", id>>

\* `exam-${exam.id}`, `overdue-${task.id}`, `upcoming-${task.id}`
NotifId(source, id) == <<source, id>>

\* A notification; days is the day count the message embeds, if it has one.
Notif(id, title, course, days, date) ==
    [id |-> id, title |-> title, course |-> course, days |-> days,
     time |-> date \div DAY, read |-> FALSE]

\* Faulty variant: the title built from the course as it is.
CourseOrGeneral_Raw(course) == course

\* task.course || 'General'
CourseOrGeneral(course) == IF course = NoCourse THEN "General" ELSE course

\* exams?.forEach, overdueTasks?.forEach, upcomingTasks?.forEach: null data
\* is skipped.
Rows(res) == IF res.ok THEN res.rows ELSE <<>>

\* Faulty variant: the list without the upcoming tasks when the exams query failed.
BuildNotifs_Aborts(resE, resO, resU, t) ==
    LET exam(r) == Notif(NotifId("exam", r.id), "Upcoming Exam", NoCourse,
                         <<daysUntil(r.exam_date, t)>>, r.exam_date)
        overdue(r) == Notif(NotifId("overdue", r.id), "Overdue Task", NoCourse,
                            <<>>, r.due_date)
        upcoming(r) == Notif(NotifId("upcoming", r.id), "Upcoming Task",
                             CourseOrGeneral(r.course),
                             <<daysUntil(r.due_date, t)>>, r.due_date)
    IN  IF resE.ok
        THEN [k \in 1..Len(Rows(resE)) |-> exam(Rows(resE)[k])]
                \o [k \in 1..Len(Rows(resO)) |-> overdue(Rows(resO)[k])]
                \o [k \in 1..Len(Rows(resU)) |-> upcoming(Rows(resU)[k])]
        ELSE <<>>

\* The list loadNotifications builds from the three answers at time t: the
\* exams, then the overdue tasks, then the upcoming tasks.
BuildNotifs(resE, resO, resU, t) ==
    LET exam(r) == Notif(NotifId("exam", r.id), "Upcoming Exam", NoCourse,
                         <<daysUntil(r.exam_date, t)>>, r.exam_date)
        overdue(r) == Notif(NotifId("overdue", r.id), "Overdue Task", NoCourse,
                            <<>>, r.due_date)
        upcoming(r) == Notif(NotifId("upcoming", r.id), "Upcoming Task",
                             CourseOrGeneral(r.course),
                             <<daysUntil(r.due_date, t)>>, r.due_date)
    IN  [k \in 1..Len(Rows(resE)) |-> exam(Rows(resE)[k])]
            \o [k \in 1..Len(Rows(resO)) |-> overdue(Rows(resO)[k])]
            \o [k \in 1..Len(Rows(resU)) |-> upcoming(Rows(resU)[k])]

\* A loadNotifications() call: the await it is at (or how it ended), the user
\* it got, the data queries it has issued, the clock readings its queries
\* carry and the answers it holds.
NPassStart ==
    [pc |-> "getUser", uid |-> NoUser, queries |-> 0,
     tE |-> 0, tO |-> 0, tU |-> 0, resE |-> Failed, resO |-> Failed]

NoId == <<"none", 0>>

\* A Header step: the handler and the stored rows it starts from, for a
\* dismissal the id and the list and count before it, for a finished
\* loadNotifications() what the call read.
HStep(op) ==
    [op |-> op, tables |-> <<exams, tasks, pomodoro_sessions>>,
     id |-> NoId, notifications |-> <<>>, unreadCount |-> 0,
     uid |-> NoUser, tE |-> 0, tO |-> 0, tU |-> 0, tB |-> 0,
     resE |-> Failed, resO |-> Failed, resU |-> Failed]

\* Faulty variant: loadNotifications without the guard on the user.
NotifGotUser_NoGuard(t) ==
    /\ npass.pc = "getUser"
    /\ now' = t
    /\ npass' = [npass EXCEPT !.pc = "exams", !.uid = user, !.tE = t, !.queries = 1]
    /\ hlast' = HStep("loadNotifications.user")
    /\ UNCHANGED <<user, pvars, gvars, exams, tasks, notifications, unreadCount, dismissed, dvars>>

\* loadNotifications after await getUser(), at time t: if (!user) return;
\* otherwise the exams query is issued with new Date().
NotifGotUser(t) ==
    /\ npass.pc = "getUser"
    /\ now' = t
    /\ npass' = IF user = NoUser THEN [npass EXCEPT !.pc = "nouser"]
                ELSE [npass EXCEPT !.pc = "exams", !.uid = user,
                                   !.tE = t, !.queries = 1]
    /\ hlast' = HStep(IF user = NoUser THEN "loadNotifications.nouser"
                      ELSE "loadNotifications.user")
    /\ UNCHANGED <<user, pvars, gvars, exams, tasks, notifications, unreadCount, dismissed, dvars>>

\* The exams query is answered at time t; the overdue query is issued with
\* new Date().
NotifExams(ok, t) ==
    /\ npass.pc = "exams"
    /\ now' = t
    /\ \E res \in IF ok THEN SelectExams(user, npass.uid, npass.tE, QueryLimit)
                  ELSE {Failed} :
          npass' = [npass EXCEPT !.pc = "overdue", !.resE = res,
                                 !.tO = t, !.queries = 2]
    /\ hlast' = HStep("loadNotifications.exams")
    /\ UNCHANGED <<user, pvars, gvars, exams, tasks, notifications, unreadCount, dismissed, dvars>>

\* The overdue query is answered at time t; sevenDaysFromNow is computed and
\* the upcoming query is issued with new Date().
NotifOverdue(ok, t) ==
    /\ npass.pc = "overdue"
    /\ now' = t
    /\ \E res \in IF ok THEN SelectOverdue(user, npass.uid, npass.tO, QueryLimit)
                  ELSE {Failed} :
          npass' = [npass EXCEPT !.pc = "upcoming", !.resO = res,
                                 !.tU = t, !.queries = 3]
    /\ hlast' = HStep("loadNotifications.overdue")
    /\ UNCHANGED <<user, pvars, gvars, exams, tasks, notifications, unreadCount, dismissed, dvars>>

\* The upcoming query is answered at time t; the list is built with
\* Date.now(), then setNotifications(notifs); setUnreadCount(notifs.length).
NotifUpcoming(ok, t) ==
    /\ npass.pc = "upcoming"
    /\ now' = t
    /\ \E res \in IF ok THEN SelectUpcoming(user, npass.uid, npass.tU,
                                            npass.tU + Week * DAY, QueryLimit)
                  ELSE {Failed} :
          /\ notifications' = BuildNotifs(npass.resE, npass.resO, res, t)
          /\ hlast' = [HStep("loadNotifications.done") EXCEPT
                          !.uid = npass.uid, !.tE = npass.tE, !.tO = npass.tO,
                          !.tU = npass.tU, !.tB = t, !.resE = npass.resE,
                          !.resO = npass.resO, !.resU = res]
    /\ unreadCount' = Len(notifications')
    /\ npass' = [NPassStart EXCEPT !.pc = "done", !.queries = 3]
    /\ UNCHANGED <<user, pvars, gvars, exams, tasks, dismissed, dvars>>

\* Faulty variant: a dismissal that leaves the count as it was.
removeNotification_KeepsCount(id) ==
    /\ notifications' = SelectSeq(notifications, LAMBDA n : n.id # id)
    /\ unreadCount' = unreadCount

\* Faulty variant: a dismissal that empties the list.
removeNotification_All(id) ==
    /\ notifications' = <<>>
    /\ unreadCount' = Max(0, unreadCount - 1)

\* removeNotification(id): setNotifications(prev => prev.filter(...));
\* setUnreadCount(prev => Math.max(0, prev - 1))
removeNotification(id) ==
    /\ notifications' = SelectSeq(notifications, LAMBDA n : n.id # id)
    /\ unreadCount' = Max(0, unreadCount - 1)

\* The X button of a notification: onClick={() => removeNotification(notif.id)}.
ClickRemove(id) ==
    /\ \E i \in DOMAIN notifications : notifications[i].id = id
    /\ removeNotification(id)
    /\ dismissed' = id
    /\ hlast' = [HStep("removeNotification") EXCEPT
                    !.id = id, !.notifications = notifications,
                    !.unreadCount = unreadCount]
    /\ UNCHANGED <<user, pvars, gvars, dbvars, npass, dvars>>

\* The page is loaded again: the Header is mounted with fresh state and its
\* mount effect calls loadNotifications(); the call of the page before is gone.
HeaderMount ==
    /\ notifications' = <<>>
    /\ unreadCount' = 0
    /\ npass' = NPassStart
    /\ hlast' = HStep("mount")
    /\ UNCHANGED <<user, pvars, gvars, dbvars, dismissed, dvars>>

(* ------------------------------------------------------------- Dashboard *)

\* date-fns isToday, isTomorrow: the same calendar day as Date.now(), the next.
isToday(date, t) == date \div DAY = t \div DAY
isTomorrow(date, t) == date \div DAY = t \div DAY + 1

\* format(date, "HH:mm"): the four digits of the time of day.
HHmm(date) ==
    LET m == ((date % DAY) * 24 * 60) \div DAY
    IN  <<(m \div 60) \div 10, (m \div 60) % 10, (m % 60) \div 10, (m % 60) % 10>>

\* a.localeCompare(b) for two strings of digits of the same length
localeCompare(a, b) ==
    IF a = b THEN 0
    ELSE LET i == CHOOSE k \in DOMAIN a :
                    a[k] # b[k] /\ \A l \in DOMAIN a : l < k => a[l] = b[l]
         IN  IF a[i] < b[i] THEN -1 ELSE 1

\* Faulty variant: the schedule left in the order it was built in.
SortByTime_Unsorted(s) == s

\* scheduleItems.sort((a, b) => a.time.localeCompare(b.time)); the sort is stable.
RECURSIVE SortByTime(_)
SortByTime(s) ==
    IF s = <<>> THEN <<>>
    ELSE LET t == SortByTime(SubSeq(s, 1, Len(s) - 1))
             x == s[Len(s)]
             p == Cardinality({i \in DOMAIN t : localeCompare(t[i].time, x.time) <= 0})
         IN  SubSeq(t, 1, p) \o <<x>> \o SubSeq(t, p + 1, Len(t))

\* from("tasks").eq("user_id", uid).eq("completed", false), in any order
SelectOpenTasks(auth, uid) ==
    {Answer(TaskRecs(o)) :
        o \in Orderings({i \in VisibleTasks(auth) :
                            tasks[i].user_id = uid /\ ~tasks[i].completed})}

\* The schedule loadDashboardData builds at time t from the open tasks and
\* the next exam: the tasks due today or overdue, the exam if it is today or
\* tomorrow, sorted by their time of day.
BuildSchedule(resT, resX, t) ==
    LET todayTasks == SelectSeq(Rows(resT), LAMBDA r :
                        /\ r.due_date # NoDate
                        /\ (isToday(r.due_date, t) \/ (r.due_date < t /\ ~r.completed)))
        todayExams == SelectSeq(Rows(resX), LAMBDA r :
                        isToday(r.exam_date, t) \/ isTomorrow(r.exam_date, t))
        task(r) == [id |-> r.id, type |-> "task", time |-> HHmm(r.due_date)]
        exam(r) == [id |-> r.id, type |-> "exam", time |-> HHmm(r.exam_date)]
    IN  SortByTime([k \in 1..Len(todayTasks) |-> task(todayTasks[k])]
                   \o [k \in 1..Len(todayExams) |-> exam(todayExams[k])])

\* The stats read from the tables modelled here: completedToday and
\* focusMinutes are counted over columns (updated_at, started_at) the model
\* does not carry.
StatsInit == [totalTasks |-> 0, nextExam |-> NULL]

DPassStart ==
    [pc |-> "getUser", uid |-> NoUser, queries |-> 0, tX |-> 0,
     resT |-> Failed, resX |-> Failed]

\* loadDashboardData after await getUser(): if (!user) return; otherwise the
\* query for the open tasks is issued.
DashGotUser ==
    /\ dpass.pc = "getUser"
    /\ dpass' = IF user = NoUser THEN [dpass EXCEPT !.pc = "nouser"]
                ELSE [dpass EXCEPT !.pc = "tasks", !.uid = user, !.queries = 1]
    /\ UNCHANGED <<user, pvars, gvars, dbvars, hvars, stats, schedule>>

\* The open tasks are answered; the query for today's completed tasks is
\* issued (its date, today at midnight, is compared with a column the model
\* does not carry).
DashTasks(ok) ==
    /\ dpass.pc = "tasks"
    /\ \E res \in IF ok THEN SelectOpenTasks(user, dpass.uid) ELSE {Failed} :
          dpass' = [dpass EXCEPT !.pc = "completed", !.resT = res, !.queries = 2]
    /\ UNCHANGED <<user, pvars, gvars, dbvars, hvars, stats, schedule>>

\* Today's completed tasks are answered at time t; the query for the next
\* exam is issued with new Date().
DashCompleted(t) ==
    /\ dpass.pc = "completed"
    /\ now' = t
    /\ dpass' = [dpass EXCEPT !.pc = "exams", !.tX = t, !.queries = 3]
    /\ UNCHANGED <<user, pvars, gvars, exams, tasks, hvars, stats, schedule>>

\* The next exam is answered; the query for today's sessions is issued.
DashExams(ok) ==
    /\ dpass.pc = "exams"
    /\ \E res \in IF ok THEN SelectExams(user, dpass.uid, dpass.tX, 1) ELSE {Failed} :
          dpass' = [dpass EXCEPT !.pc = "sessions", !.resX = res, !.queries = 4]
    /\ UNCHANGED <<user, pvars, gvars, dbvars, hvars, stats, schedule>>

\* Today's sessions are answered at time t: setStats(...), the schedule is
\* built and sorted, setSchedule(scheduleItems).
DashSessions(t) ==
    /\ dpass.pc = "sessions"
    /\ now' = t
    /\ dpass' = [dpass EXCEPT !.pc = "done"]
    /\ stats' = [totalTasks |-> Len(Rows(dpass.resT)),
                 nextExam |-> IF Rows(dpass.resX) = <<>> THEN NULL
                              ELSE Rows(dpass.resX)[1].id]
    /\ schedule' = BuildSchedule(dpass.resT, dpass.resX, t)
    /\ UNCHANGED <<user, pvars, gvars, exams, tasks, hvars>>

\* The Dashboard page is opened again: fresh state, and the mount effect
\* calls loadDashboardData().
DashboardMount ==
    /\ dpass.pc \in {"nouser", "done"}
    /\ stats' = StatsInit
    /\ schedule' = <<>>
    /\ dpass' = DPassStart
    /\ UNCHANGED <<user, pvars, gvars, dbvars, hvars>>

(* ------------------------------------------------ Tasks, Notes and Exams *)

User2 == "u2"
Users == {User1, User2}

\* A deleted row; its id is not used again.
Gone == [user_id |-> "deleted"]

\* Faulty variant: a policy that lets every signed-in caller through.
Owns_Anyone(auth, row) == auth # NoUser

\* USING (auth.uid() = user_id), WITH CHECK (auth.uid() = user_id): the
\* condition of every policy on tasks, exams, pomodoro_sessions and notes.
\* Without a session auth.uid() is null and the condition is not true.
Owns(auth, row) == auth # NoUser /\ row.user_id = auth

\* The answer to a write: {error: null} with the rows as they are then, or
\* {error} with the rows unchanged.
Written(rows) == [ok |-> TRUE, rows |-> rows]
Refused(rows) == [ok |-> FALSE, rows |-> rows]

\* FOR SELECT USING (...): the ids of the rows a caller sees.
SelectRows(rows, auth) == {i \in DOMAIN rows : Owns(auth, rows[i])}

\* FOR INSERT WITH CHECK (...): a row that fails the check is an error.
InsertRow(rows, auth, row) ==
    IF Owns(auth, row) THEN Written(Append(rows, row)) ELSE Refused(rows)

\* FOR UPDATE USING (...), with .eq("id", id): a row the policy hides is not
\* updated, which is no error; the new row has to satisfy the condition too.
UpdateRow(rows, auth, id, new) ==
    IF id \in SelectRows(rows, auth)
    THEN IF Owns(auth, new) THEN Written([rows EXCEPT ![id] = new])
         ELSE Refused(rows)
    ELSE Written(rows)

\* FOR DELETE USING (...), with .eq("id", id)
DeleteRow(rows, auth, id) ==
    IF id \in SelectRows(rows, auth)
    THEN Written([rows EXCEPT ![id] = Gone])
    ELSE Written(rows)

Pages == {"Tasks", "Notes", "Exams"}

\* from("tasks"), from("notes"), from("exams")
TableOf(p) ==
    CASE p = "Tasks" -> tasks
      [] p = "Notes" -> notes
      [] OTHER -> exams

SetTable(p, rows) ==
    /\ tasks' = IF p = "Tasks" THEN rows ELSE tasks
    /\ notes' = IF p = "Notes" THEN rows ELSE notes
    /\ exams' = IF p = "Exams" THEN rows ELSE exams

Noun(p) ==
    CASE p = "Tasks" -> "task"
      [] p = "Notes" -> "note"
      [] OTHER -> "exam"

\* The form as it starts and as it is reset, with its required inputs
\* empty, and a form filled in.
FormBlank == [title |-> "", date |-> NoDate]
FormFilled == [title |-> "x", date |-> 1]

\* The row handleSubmit inserts: {...formData, user_id: user.id, due_date:
\* formData.due_date || null}; completed and pinned default to false.
NewRowOf(p, uid, form) ==
    CASE p = "Tasks" -> [user_id |-> uid, completed |-> FALSE,
                         due_date |-> form.date, course |-> NoCourse]
      [] p = "Notes" -> [user_id |-> uid, pinned |-> FALSE]
      [] OTHER -> [user_id |-> uid, exam_date |-> form.date]

\* The insert of handleSubmit.
InsertFrom(p, auth, uid, form) ==
    InsertRow(TableOf(p), auth, NewRowOf(p, uid, form))

\* task.completed, note.pinned
FlagOf(p, row) == IF p = "Tasks" THEN row.completed ELSE row.pinned

\* update({completed: value}), update({pinned: value})
WithFlag(p, row, value) ==
    IF p = "Tasks" THEN [row EXCEPT !.completed = value]
    ELSE [row EXCEPT !.pinned = value]

\* The update of toggleComplete and togglePin.
UpdateFlag(p, auth, id, value) ==
    UpdateRow(TableOf(p), auth, id,
              IF id \in SelectRows(TableOf(p), auth)
              THEN WithFlag(p, TableOf(p)[id], value) ELSE Gone)

\* A row as the page holds it after a load.
Item(p, i) == [id |-> i, row |-> TableOf(p)[i]]

\* select("*").eq("user_id", uid) with .order("position") for the tasks (no
\* task is given a position, so all are equal), .order("pinned", {ascending:
\* false}) for the notes and .order("exam_date") for the exams: the orders
\* the rows can come in.
LoadOrders(p, ids) ==
    {o \in Orderings(ids) :
        \A k, l \in DOMAIN o :
            k < l => CASE p = "Tasks" -> TRUE
                       [] p = "Notes" -> notes[o[k]].pinned \/ ~notes[o[l]].pinned
                       [] OTHER -> exams[o[k]].exam_date <= exams[o[l]].exam_date}

SelectList(p, auth, uid) ==
    {[k \in 1..Len(o) |-> Item(p, o[k])] :
        o \in LoadOrders(p, {i \in SelectRows(TableOf(p), auth) :
                                 TableOf(p)[i].user_id = uid})}

\* A call of the page waiting at an await: the handler, the await, the id
\* and the value of its write, the user it got and the form it captured.
PageCall(op, pc, id, value, uid, form) ==
    [op |-> op, pc |-> pc, id |-> id, value |-> value, uid |-> uid, form |-> form]

NoPageCall == PageCall("none", "none", 0, FALSE, NoUser, FormBlank)

LoadCall == PageCall("load", "getUser", 0, FALSE, NoUser, FormBlank)

\* The state a failed write starts from; no other step is recorded.
NoGStep ==
    [op |-> "none", call |-> NoPageCall, list |-> <<>>, open |-> FALSE,
     formData |-> FormBlank, rows |-> <<>>, calls |-> EmptyBag]

WriteErrors == {"handleSubmit.error", "toggle.error", "deleteNote.error"}

\* The step being taken, and for a failed write the state it starts from.
GStep(op, c) ==
    IF op \in WriteErrors
    THEN [op |-> op, call |-> c, list |-> list, open |-> open,
          formData |-> formData, rows |-> TableOf(route), calls |-> calls]
    ELSE NoGStep

\* What a step of the page leaves alone.
PageFrame == UNCHANGED <<user, pvars, hvars, dvars, now, route, access>>

\* onOpenChange={setOpen}: the dialog is opened or closed.
setOpen ==
    /\ route \in Pages
    /\ open' = ~open
    /\ glast' = GStep("setOpen", NoPageCall)
    /\ UNCHANGED <<tasks, notes, exams, list, formData, notice, calls, pair>>
    /\ PageFrame

\* onChange={(e) => setFormData({...formData, title: e.target.value})}
setFormData(f) ==
    /\ route \in Pages /\ open
    /\ f # formData
    /\ formData' = f
    /\ glast' = GStep("setFormData", NoPageCall)
    /\ UNCHANGED <<tasks, notes, exams, list, open, notice, calls, pair>>
    /\ PageFrame

\* handleSubmit up to its first await: the form of the dialog is submitted,
\* which the browser allows once the required inputs are filled.
handleSubmit ==
    /\ route \in Pages /\ open
    /\ formData # FormBlank
    /\ Len(TableOf(route)) + Count(calls, "handleSubmit") < PagesRows
    /\ BagCardinality(calls) < MaxInflight
    /\ calls' = calls (+) One(PageCall("handleSubmit", "getUser", 0, FALSE,
                                       NoUser, formData))
    /\ glast' = GStep("handleSubmit", NoPageCall)
    /\ UNCHANGED <<tasks, notes, exams, list, open, formData, notice, pair>>
    /\ PageFrame

\* handleSubmit after await getUser(): if (!user) return; otherwise the
\* insert is issued.
SubmitGotUser(c) ==
    /\ c.op = "handleSubmit" /\ c.pc = "getUser"
    /\ calls' = IF user = NoUser THEN calls (-) One(c)
                ELSE (calls (-) One(c)) (+) One([c EXCEPT !.pc = "insert", !.uid = user])
    /\ glast' = GStep(IF user = NoUser THEN "handleSubmit.nouser"
                      ELSE "handleSubmit.user", c)
    /\ UNCHANGED <<tasks, notes, exams, list, open, formData, notice, pair>>
    /\ PageFrame

\* Faulty variant: a failed write after which the list is loaded again.
WriteFailed_Reloads(c, title) ==
    /\ notice' = title
    /\ calls' = (calls (-) One(c)) (+) One(LoadCall)
    /\ UNCHANGED <<tasks, notes, exams, list, open, formData>>

\* if (error) toast({variant: "destructive", title, ...}): the error branch
\* of handleSubmit, toggleComplete, togglePin and deleteNote.
WriteFailed(c, title) ==
    /\ notice' = title
    /\ calls' = calls (-) One(c)
    /\ UNCHANGED <<tasks, notes, exams, list, open, formData>>

\* handleSubmit after the insert succeeded: a toast, setOpen(false),
\* setFormData({title: "", ...}) and the list is loaded again.
SubmitSucceeded(c, rows) ==
    /\ SetTable(route, rows)
    /\ notice' = <<IF route = "Exams" THEN "Exam added" ELSE "created", Noun(route)>>
    /\ open' = FALSE
    /\ formData' = FormBlank
    /\ calls' = (calls (-) One(c)) (+) One(LoadCall)
    /\ UNCHANGED list

\* The insert of a handleSubmit call is answered.
SubmitInserted(c, fail) ==
    /\ c.op = "handleSubmit" /\ c.pc = "insert"
    /\ LET res == IF fail THEN Refused(TableOf(route))
                  ELSE InsertFrom(route, user, c.uid, c.form)
       IN  /\ glast' = GStep(IF res.ok THEN "handleSubmit.ok"
                             ELSE "handleSubmit.error", c)
           /\ IF res.ok THEN SubmitSucceeded(c, res.rows)
              ELSE WriteFailed(c, <<"Error creating", Noun(route)>>)
    /\ UNCHANGED pair
    /\ PageFrame

\* The toggles of one row: the row toggled first, the flag it had in the
\* table then, the toggles invoked on it since and those written; after a
\* third toggle or a third write no more is recorded.
NoPair == [id |-> 0, orig |-> FALSE, invoked |-> 0, written |-> 0]
ManyToggles == [id |-> 0, orig |-> FALSE, invoked |-> 3, written |-> 3]

\* toggleComplete(task) and togglePin(note) up to their await: the update is
\* issued with the negation of the flag of the row the page holds.
toggleFlag(k) ==
    /\ route \in {"Tasks", "Notes"}
    /\ k \in DOMAIN list
    /\ BagCardinality(calls) < MaxInflight
    /\ LET id == list[k].id
       IN  /\ calls' = calls (+) One(PageCall("toggle", "update", id,
                                              ~FlagOf(route, list[k].row),
                                              NoUser, FormBlank))
           /\ pair' = IF ~recording THEN pair
                      ELSE IF pair.invoked = 0
                      THEN IF TableOf(route)[id] = Gone THEN pair
                           ELSE [id |-> id, orig |-> FlagOf(route, TableOf(route)[id]),
                                 invoked |-> 1, written |-> 0]
                      ELSE IF pair.id = id /\ pair.invoked < 3
                           THEN IF pair.invoked = 2 THEN ManyToggles
                                ELSE [pair EXCEPT !.invoked = 2]
                           ELSE pair
    /\ glast' = GStep("toggle", NoPageCall)
    /\ UNCHANGED <<tasks, notes, exams, list, open, formData, notice>>
    /\ PageFrame

\* The update of a toggleComplete or togglePin call is answered: on success
\* the list is loaded again.
FlagUpdated(c, fail) ==
    /\ c.op = "toggle"
    /\ LET res == IF fail THEN Refused(TableOf(route))
                  ELSE UpdateFlag(route, user, c.id, c.value)
       IN  /\ glast' = GStep(IF res.ok THEN "toggle.ok" ELSE "toggle.error", c)
           /\ IF res.ok
              THEN /\ SetTable(route, res.rows)
                   /\ calls' = (calls (-) One(c)) (+) One(LoadCall)
                   /\ pair' = IF recording /\ pair.invoked \in {1, 2} /\ pair.id = c.id
                              THEN IF pair.written = 2 THEN ManyToggles
                                   ELSE [pair EXCEPT !.written = @ + 1]
                              ELSE pair
                   /\ UNCHANGED <<list, open, formData, notice>>
              ELSE /\ WriteFailed(c, <<"Error updating", Noun(route)>>)
                   /\ UNCHANGED pair
    /\ PageFrame

\* deleteNote(id) up to its await: the delete is issued.
deleteNote(k) ==
    /\ route = "Notes"
    /\ k \in DOMAIN list
    /\ BagCardinality(calls) < MaxInflight
    /\ calls' = calls (+) One(PageCall("deleteNote", "delete", list[k].id, FALSE,
                                       NoUser, FormBlank))
    /\ glast' = GStep("deleteNote", NoPageCall)
    /\ UNCHANGED <<tasks, notes, exams, list, open, formData, notice, pair>>
    /\ PageFrame

\* The delete of a deleteNote call is answered: on success a toast, and the
\* list is loaded again.
NoteDeleted(c, fail) ==
    /\ c.op = "deleteNote"
    /\ LET res == IF fail THEN Refused(notes) ELSE DeleteRow(notes, user, c.id)
       IN  /\ glast' = GStep(IF res.ok THEN "deleteNote.ok" ELSE "deleteNote.error", c)
           /\ IF res.ok
              THEN /\ SetTable(route, res.rows)
                   /\ notice' = <<"deleted", "note">>
                   /\ calls' = (calls (-) One(c)) (+) One(LoadCall)
                   /\ UNCHANGED <<list, open, formData>>
              ELSE WriteFailed(c, <<"Error deleting", "note">>)
    /\ UNCHANGED pair
    /\ PageFrame

\* loadTasks, loadNotes, loadExams after await getUser(): if (!user) return;
\* otherwise the select is issued.
ListGotUser(c) ==
    /\ c.op = "load" /\ c.pc = "getUser"
    /\ calls' = IF user = NoUser THEN calls (-) One(c)
                ELSE (calls (-) One(c)) (+) One([c EXCEPT !.pc = "select", !.uid = user])
    /\ glast' = GStep("load.user", c)
    /\ UNCHANGED <<tasks, notes, exams, list, open, formData, notice, pair>>
    /\ PageFrame

\* The select is answered: if (data) setTasks(data).
ListSelected(c, fail) ==
    /\ c.op = "load" /\ c.pc = "select"
    /\ calls' = calls (-) One(c)
    /\ list' \in IF fail THEN {list} ELSE SelectList(route, user, c.uid)
    /\ glast' = GStep("load.data", c)
    /\ UNCHANGED <<tasks, notes, exams, open, formData, notice, pair>>
    /\ PageFrame

\* The rows of its table a page can have made: inserted by handleSubmit,
\* with the flag as toggleComplete or togglePin left it.
StoredRows(p) ==
    CASE p = "Tasks" -> {WithFlag(p, NewRowOf(p, User1, f), b) :
                            f \in {FormBlank, FormFilled}, b \in BOOLEAN}
      [] p = "Notes" -> {WithFlag(p, NewRowOf(p, User1, FormBlank), b) : b \in BOOLEAN}
      [] OTHER -> {NewRowOf(p, User1, FormFilled)}

\* The tables of up to n such rows for the page p, and none for another.
StoredTables(p, q, n) ==
    IF p = q THEN UNION {[1..k -> StoredRows(p)] : k \in 0..n} ELSE {<<>>}

\* No request has been made.
NoAccess ==
    [op |-> "none", caller |-> NoUser, table |-> "none", id |-> 0,
     returned |-> {}, before |-> <<>>]

\* CREATE TABLE public.tasks, exams, pomodoro_sessions, notes: the tables
\* with row level security enabled and a policy on user_id.
Tables == {"tasks", "exams", "pomodoro_sessions", "notes"}

TableAt(t) ==
    CASE t = "tasks" -> tasks
      [] t = "exams" -> exams
      [] t = "pomodoro_sessions" -> pomodoro_sessions
      [] OTHER -> notes

AllTables == [t \in Tables |-> TableAt(t)]

PutTable(t, rows) ==
    /\ tasks' = IF t = "tasks" THEN rows ELSE tasks
    /\ exams' = IF t = "exams" THEN rows ELSE exams
    /\ pomodoro_sessions' = IF t = "pomodoro_sessions" THEN rows ELSE pomodoro_sessions
    /\ notes' = IF t = "notes" THEN rows ELSE notes

\* A row of the table as the pages insert it, for the owner uid.
RowFor(t, uid) ==
    CASE t = "tasks" -> NewRowOf("Tasks", uid, FormBlank)
      [] t = "exams" -> NewRowOf("Exams", uid, FormFilled)
      [] t = "pomodoro_sessions" -> NewRow(uid)
      [] OTHER -> NewRowOf("Notes", uid, FormBlank)

\* The row after the update a page makes of it: toggleComplete, the update
\* of completeSession, togglePin; for exams, which no page updates, another
\* exam_date.
Touched(t, row) ==
    CASE t = "tasks" -> WithFlag("Tasks", row, ~row.completed)
      [] t = "exams" -> [row EXCEPT !.exam_date = 3 - @]
      [] t = "pomodoro_sessions" ->
            [row EXCEPT !.completed = TRUE, !.completed_at = "now"]
      [] OTHER -> WithFlag("Notes", row, ~row.pinned)

\* The rows an update can ask for: the page's update, or another owner.
NewRows(t, row) == {Touched(t, row)} \cup {[row EXCEPT !.user_id = u] : u \in Users}

\* A request to the database: the operation, the caller (auth.uid()), the
\* table, the id of .eq("id", id), the rows returned, and the tables before.
Access(op, auth, t, id, returned) ==
    [op |-> op, caller |-> auth, table |-> t, id |-> id, returned |-> returned,
     before |-> AllTables]

\* What a request leaves alone: every page.
AccessFrame ==
    UNCHANGED <<user, recording, mounted, timeLeft, isRunning, interval, sessionId,
                sessions, toasts, inflight, rowsSinceIdle, afterReset, abandoned,
                ownRows, last, now, hvars, dvars, route, list, open, formData,
                notice, calls, glast, pair>>

\* from(t).select("*") by the caller auth, whatever filter it adds.
selectRequest(auth, t) ==
    /\ access' = Access("select", auth, t, 0,
                        {TableAt(t)[i] : i \in SelectRows(TableAt(t), auth)})
    /\ PutTable(t, TableAt(t))
    /\ AccessFrame

\* from(t).insert(row).select() by the caller auth, of a row for any owner.
insertRequest(auth, t, owner) ==
    /\ Len(tasks) + Len(exams) + Len(pomodoro_sessions) + Len(notes) < AccessRows
    /\ LET res == InsertRow(TableAt(t), auth, RowFor(t, owner))
       IN  /\ access' = Access("insert", auth, t, 0,
                               IF res.ok THEN {RowFor(t, owner)} ELSE {})
           /\ PutTable(t, res.rows)
    /\ AccessFrame

\* from(t).update(new).eq("id", id).select() by the caller auth.
updateRequest(auth, t, id, new) ==
    /\ id \in DOMAIN TableAt(t)
    /\ TableAt(t)[id] # Gone
    /\ new \in NewRows(t, TableAt(t)[id])
    /\ LET res == UpdateRow(TableAt(t), auth, id, new)
       IN  /\ access' = Access("update", auth, t, id,
                               IF res.rows # TableAt(t) THEN {res.rows[id]} ELSE {})
           /\ PutTable(t, res.rows)
    /\ AccessFrame

\* from(t).delete().eq("id", id).select() by the caller auth.
deleteRequest(auth, t, id) ==
    /\ id \in DOMAIN TableAt(t)
    /\ LET res == DeleteRow(TableAt(t), auth, id)
       IN  /\ access' = Access("delete", auth, t, id,
                               IF res.rows # TableAt(t) THEN {TableAt(t)[id]} ELSE {})
           /\ PutTable(t, res.rows)
    /\ AccessFrame

\* Another page is shown: none of Tasks, Notes and Exams is mounted.
NoPageShown ==
    /\ route = "none"
    /\ list = <<>>
    /\ open = FALSE
    /\ formData = FormBlank
    /\ notice = <<"none", "none">>
    /\ calls = EmptyBag
    /\ glast = NoGStep
    /\ pair = NoPair
    /\ access = NoAccess

InitNoPage == notes = <<>> /\ NoPageShown

\* The page p as mounted: its mount effect has
\* called loadTasks(), loadNotes() or loadExams().
InitPage(p) ==
    /\ route = p
    /\ list = <<>>
    /\ open = FALSE
    /\ formData = FormBlank
    /\ notice = <<"none", "none">>
    /\ calls = One(LoadCall)
    /\ glast = NoGStep
    /\ pair = NoPair
    /\ access = NoAccess

\* The tables and the clock at the start: tables of up to n rows together.
InitData(n) ==
    /\ exams \in ExamTables(n)
    /\ tasks \in TaskTables(n)
    /\ Len(exams) + Len(tasks) <= n
    /\ now = 1

\* The Header as mounted: its mount effect has called loadNotifications().
InitHeader ==
    /\ notifications = <<>>
    /\ unreadCount = 0
    /\ npass = NPassStart
    /\ dismissed = NoId
    /\ hlast = HStep("mount")

\* The Dashboard as mounted: its mount effect has called loadDashboardData().
InitDashboard ==
    /\ stats = StatsInit
    /\ schedule = <<>>
    /\ dpass = DPassStart

\* The Pomodoro page as mounted; rec tells whether the histories of its
\* resets are recorded.
ControllerMounted(rec) ==
    /\ recording = rec
    /\ user \in {NoUser, User1}
    /\ mounted = TRUE
    /\ timeLeft = duration
    /\ isRunning = FALSE
    /\ interval = FALSE
    /\ sessionId = NULL
    /\ sessions = <<>>
    /\ toasts = "none"
    /\ inflight = One(Call("loadSessions", "getUser", NULL, NoUser, TRUE))
    /\ rowsSinceIdle = 0
    /\ afterReset = FALSE
    /\ abandoned = {}
    /\ ownRows = {}
    /\ last = [op |-> "init", sid |-> NULL, live |-> TRUE,
               isRunning |-> FALSE, timeLeft |-> duration, sessionId |-> NULL,
               rows |-> <<>>, inflight |-> EmptyBag]

\* The page as mounted, with no session in the table yet.
InitController(rec) == ControllerMounted(rec) /\ pomodoro_sessions = <<>>

InitPomodoro == InitController(FALSE)

\* The Pomodoro page in use, over empty exams and tasks tables.
Init == InitPomodoro /\ InitData(0) /\ InitHeader /\ InitDashboard /\ InitNoPage

Next ==
    \/ ClickToggle
    \/ ClickReset
    \/ \E code \in {"Space", "KeyR", "KeyA"} : handleKeyPress(code)
    \/ Tick
    \/ \E c \in BagToSet(inflight) : ToggleGotUser(c)
    \/ \E c \in BagToSet(inflight), ok \in BOOLEAN : ToggleInserted(c, ok)
    \/ \E c \in BagToSet(inflight), ok \in BOOLEAN : CompleteUpdated(c, ok)
    \/ \E c \in BagToSet(inflight) : LoadGotUser(c)
    \/ \E c \in BagToSet(inflight), ok \in BOOLEAN : LoadSelected(c, ok)
    \/ Unmount
    \/ Mount
    \/ AuthChange

Spec == Init /\ [][Next]_vars

\* The handlers of one mounted controller driven directly, completeSession()
\* included: no navigation and no change of the auth session.
NextDirect ==
    \/ DirectComplete
    \/ ClickToggle
    \/ ClickReset
    \/ \E code \in {"Space", "KeyR", "KeyA"} : handleKeyPress(code)
    \/ Tick
    \/ \E c \in BagToSet(inflight) : ToggleGotUser(c)
    \/ \E c \in BagToSet(inflight), ok \in BOOLEAN : ToggleInserted(c, ok)
    \/ \E c \in BagToSet(inflight), ok \in BOOLEAN : CompleteUpdated(c, ok)
    \/ \E c \in BagToSet(inflight) : LoadGotUser(c)
    \/ \E c \in BagToSet(inflight), ok \in BOOLEAN : LoadSelected(c, ok)

SpecDirect == Init /\ [][NextDirect]_vars

\* The Pomodoro page in use, with the histories of its resets recorded.
InitResets == InitController(TRUE) /\ InitData(0) /\ InitHeader /\ InitDashboard /\ InitNoPage

SpecResets == InitResets /\ [][Next]_vars

\* One mounted controller whose completion writes succeed.  The interval
\* timer keeps firing while it is set, and every request is answered.
NextLive ==
    \/ ClickToggle
    \/ ClickReset
    \/ Tick
    \/ \E c \in BagToSet(inflight) : ToggleGotUser(c)
    \/ \E c \in BagToSet(inflight), ok \in BOOLEAN : ToggleInserted(c, ok)
    \/ \E c \in BagToSet(inflight) : CompleteUpdated(c, TRUE)
    \/ \E c \in BagToSet(inflight) : LoadGotUser(c)
    \/ \E c \in BagToSet(inflight), ok \in BOOLEAN : LoadSelected(c, ok)

Fairness ==
    /\ WF_vars(Tick)
    /\ WF_vars(\E c \in BagToSet(inflight) : ToggleGotUser(c))
    /\ WF_vars(\E c \in BagToSet(inflight), ok \in BOOLEAN : ToggleInserted(c, ok))
    /\ WF_vars(\E c \in BagToSet(inflight) : CompleteUpdated(c, TRUE))
    /\ WF_vars(\E c \in BagToSet(inflight) : LoadGotUser(c))
    /\ WF_vars(\E c \in BagToSet(inflight), ok \in BOOLEAN : LoadSelected(c, ok))

SpecLive == Init /\ [][NextLive]_vars /\ Fairness

\* The Header over tables of exams and tasks.
InitNotifications ==
    InitPomodoro /\ InitData(MaxTableRows) /\ InitHeader /\ InitDashboard /\ InitNoPage

NextHeader ==
    \/ \E t \in Later(now) : NotifGotUser(t)
    \/ \E ok \in BOOLEAN, t \in Later(now) : NotifExams(ok, t)
    \/ \E ok \in BOOLEAN, t \in Later(now) : NotifOverdue(ok, t)
    \/ \E ok \in BOOLEAN, t \in Later(now) : NotifUpcoming(ok, t)
    \/ \E i \in DOMAIN notifications : ClickRemove(notifications[i].id)

SpecHeader == InitNotifications /\ [][NextHeader]_vars

\* The Header with the page loaded again and again, over tables that do not
\* exceed the limit of the queries.
InitReload ==
    InitPomodoro /\ InitData(QueryLimit) /\ InitHeader /\ InitDashboard /\ InitNoPage

NextReload ==
    \/ NextHeader
    \/ HeaderMount

SpecReload == InitReload /\ [][NextReload]_vars

\* The Header and the Dashboard side by side.
InitPages ==
    InitPomodoro /\ InitData(PagesRows) /\ InitHeader /\ InitDashboard /\ InitNoPage

NextPages ==
    \/ NextHeader
    \/ DashGotUser
    \/ \E ok \in BOOLEAN : DashTasks(ok)
    \/ \E t \in Later(now) : DashCompleted(t)
    \/ \E ok \in BOOLEAN : DashExams(ok)
    \/ \E t \in Later(now) : DashSessions(t)
    \/ DashboardMount

SpecPages == InitPages /\ [][NextPages]_vars

\* One of the pages Tasks, Notes and Exams in use.
InitPaged(rec) ==
    \E p \in Pages :
        /\ tasks \in StoredTables(p, "Tasks", PagesRows)
        /\ notes \in StoredTables(p, "Notes", PagesRows)
        /\ exams \in StoredTables(p, "Exams", PagesRows)
        /\ now = 1
        /\ InitController(rec) /\ InitHeader /\ InitDashboard
        /\ InitPage(p)

InitLists == InitPaged(FALSE)

NextLists ==
    \/ setOpen
    \/ \E f \in {FormBlank, FormFilled} : setFormData(f)
    \/ handleSubmit
    \/ \E c \in BagToSet(calls) : SubmitGotUser(c)
    \/ \E c \in BagToSet(calls), fail \in BOOLEAN : SubmitInserted(c, fail)
    \/ \E k \in DOMAIN list : toggleFlag(k)
    \/ \E c \in BagToSet(calls), fail \in BOOLEAN : FlagUpdated(c, fail)
    \/ \E k \in DOMAIN list : deleteNote(k)
    \/ \E c \in BagToSet(calls), fail \in BOOLEAN : NoteDeleted(c, fail)
    \/ \E c \in BagToSet(calls) : ListGotUser(c)
    \/ \E c \in BagToSet(calls), fail \in BOOLEAN : ListSelected(c, fail)

SpecLists == InitLists /\ [][NextLists]_vars

\* The same pages with the toggles of a row recorded.
InitToggles == InitPaged(TRUE)

SpecToggles == InitToggles /\ [][NextLists]_vars

\* Two users, one of them with a row in one of the tables, and no page in use.
OneOwner(t, owner, q) == IF q = t THEN <<RowFor(q, owner)>> ELSE <<>>

InitAccess ==
    /\ user = User1
    /\ \E t \in Tables, owner \in Users :
          /\ tasks = OneOwner(t, owner, "tasks")
          /\ exams = OneOwner(t, owner, "exams")
          /\ pomodoro_sessions = OneOwner(t, owner, "pomodoro_sessions")
          /\ notes = OneOwner(t, owner, "notes")
    /\ ControllerMounted(FALSE) /\ now = 1 /\ InitHeader /\ InitDashboard
    /\ NoPageShown

NextAccess ==
    \/ \E auth \in Users, t \in Tables : selectRequest(auth, t)
    \/ \E auth \in Users, t \in Tables, owner \in Users : insertRequest(auth, t, owner)
    \/ \E auth \in Users, t \in Tables, id \in 1..AccessRows :
          \E new \in IF id \in DOMAIN TableAt(t) /\ TableAt(t)[id] # Gone
                      THEN NewRows(t, TableAt(t)[id]) ELSE {} :
              updateRequest(auth, t, id, new)
    \/ \E auth \in Users, t \in Tables, id \in 1..AccessRows : deleteRequest(auth, t, id)

SpecAccess == InitAccess /\ [][NextAccess]_vars

\* The Dashboard over tables of exams and tasks.
InitSchedule ==
    InitPomodoro /\ InitData(MaxTableRows) /\ InitHeader /\ InitDashboard /\ InitNoPage

NextDashboard ==
    \/ DashGotUser
    \/ \E ok \in BOOLEAN : DashTasks(ok)
    \/ \E t \in Later(now) : DashCompleted(t)
    \/ \E ok \in BOOLEAN : DashExams(ok)
    \/ \E t \in Later(now) : DashSessions(t)
    \/ DashboardMount

SpecDashboard == InitSchedule /\ [][NextDashboard]_vars

TypeOK ==
    /\ user \in {NoUser, User1}
    /\ mounted \in BOOLEAN
    /\ timeLeft \in 0..duration
    /\ isRunning \in BOOLEAN
    /\ sessionId \in 0..MaxRows
    /\ Len(pomodoro_sessions) <= MaxRows
    /\ BagCardinality(inflight) <= MaxInflight

(* ---------------------------------------------------------------- claims *)

Idle == ~isRunning /\ sessionId = NULL

\* The steps a user takes on the page.
UserOps == {"toggleTimer", "resetTimer", "mount", "unmount", "completeSession"}

\* C1: between two returns to Idle (mount, reset, completion) at most one
\* pomodoro_sessions row is inserted for the controller, also when toggleTimer
\* is invoked again while the first insert is pending.
C1_OneRowPerStart == rowsSinceIdle <= 1

\* C2: a tick taken while Running with timeLeft = 1 leaves timeLeft = 0, still
\* Running on the same session, with exactly one more completion write in
\* flight, the one for the open session; and no tick is taken at timeLeft = 0.
C2_TickToZeroCompletesOnce ==
    /\ (last.op = "tick" /\ last.timeLeft = 1) =>
          /\ timeLeft = 0 /\ isRunning /\ sessionId = last.sessionId
          /\ inflight = last.inflight (+) One(CompleteCall(last.sessionId))
          /\ Count(inflight, "completeSession")
                = Count(last.inflight, "completeSession") + 1
    /\ last.op = "tick" => last.timeLeft > 0 /\ timeLeft = last.timeLeft - 1

C2_Witness ==
    /\ last.op = "tick" /\ last.timeLeft = 1 /\ last.isRunning
    /\ timeLeft = 0
    /\ CopiesIn(CompleteCall(sessionId), inflight) = 1

\* C3: resetTimer, from whatever state, leaves isRunning = false, timeLeft =
\* duration and sessionId = null, issues no call and writes no row.
C3_ResetClearsWithoutWrite ==
    last.op = "resetTimer" =>
        /\ ~isRunning /\ timeLeft = duration /\ sessionId = NULL
        /\ pomodoro_sessions = last.rows
        /\ inflight = last.inflight

C3_Witness ==
    /\ last.op = "resetTimer"
    /\ last.isRunning /\ last.timeLeft > 0 /\ last.timeLeft < duration
    /\ last.sessionId # NULL
    /\ ~pomodoro_sessions[last.sessionId].completed
    /\ pomodoro_sessions[last.sessionId].completed_at = "null"

\* C4: when the update of a completeSession call of the mounted controller
\* succeeds, the row of its session id is completed with completed_at set and
\* the controller is Idle with the full duration.
C4_CompleteSuccessResets ==
    (last.op = "completeSession.ok" /\ last.live) =>
        /\ pomodoro_sessions[last.sid].completed
        /\ pomodoro_sessions[last.sid].completed_at # "null"
        /\ ~isRunning /\ timeLeft = duration /\ sessionId = NULL

C4_Witness ==
    /\ last.op = "completeSession.ok" /\ last.live
    /\ last.isRunning /\ last.timeLeft = 0 /\ last.sessionId = last.sid
    /\ ~last.rows[last.sid].completed

\* C5: when the update of a completeSession call fails, the error toast is
\* shown, isRunning, timeLeft, sessionId and the table are as they were and no
\* call is issued; and while the controller sits at Running with timeLeft = 0,
\* no step other than a user's issues a completion write.
C5_CompleteFailureLeavesState ==
    /\ last.op = "completeSession.error" =>
          /\ toasts = "Error completing session"
          /\ isRunning = last.isRunning /\ timeLeft = last.timeLeft
          /\ sessionId = last.sessionId
          /\ pomodoro_sessions = last.rows
          /\ inflight = last.inflight
                          (-) One([CompleteCall(last.sid) EXCEPT !.live = last.live])
    /\ (last.isRunning /\ last.timeLeft = 0 /\ last.op \notin UserOps) =>
          Count(inflight, "completeSession") <= Count(last.inflight, "completeSession")

C5_Witness ==
    /\ last.op = "completeSession.error" /\ last.live
    /\ isRunning /\ timeLeft = 0 /\ sessionId = last.sid
    /\ ~pomodoro_sessions[sessionId].completed
    /\ Count(inflight, "completeSession") = 0

\* C6: when a toggleTimer call made while Idle ends because there is no user or
\* because its insert failed, isRunning, timeLeft, sessionId and the table are
\* as they were and no call is issued: a controller that was Idle is still
\* Idle, and no tick is taken while it is.
C6_StartFailureStaysIdle ==
    /\ last.op \in {"toggleTimer.error", "toggleTimer.nouser"} =>
          /\ isRunning = last.isRunning /\ timeLeft = last.timeLeft
          /\ sessionId = last.sessionId
          /\ pomodoro_sessions = last.rows
          /\ BagCardinality(inflight) = BagCardinality(last.inflight) - 1
          /\ (~last.isRunning /\ last.sessionId = NULL) => Idle
    /\ last.op = "toggleTimer.error" => toasts = "Error starting session"
    /\ last.op = "tick" => last.isRunning

C6_Witness ==
    /\ last.op = "toggleTimer.error" /\ last.live
    /\ Idle /\ timeLeft = duration
    /\ Count(inflight, "toggleTimer") = 0
    /\ pomodoro_sessions = <<>>

\* C7: toggleTimer invoked with a session open flips isRunning and keeps
\* sessionId, timeLeft and the table, and starts no insert: pausing stops the
\* ticks, resuming continues the same session.
C7_PauseResumeSameSession ==
    /\ (last.op = "toggleTimer" /\ (last.isRunning \/ last.sessionId # NULL)) =>
          /\ isRunning = ~last.isRunning
          /\ sessionId = last.sessionId /\ timeLeft = last.timeLeft
          /\ pomodoro_sessions = last.rows
          /\ Count(inflight, "toggleTimer") = Count(last.inflight, "toggleTimer")
    /\ last.op = "tick" => last.isRunning /\ sessionId = last.sessionId

C7_Witness ==
    /\ last.op = "toggleTimer" /\ ~last.isRunning /\ last.sessionId # NULL
    /\ isRunning /\ timeLeft > 0 /\ timeLeft < duration
    /\ sessionId = last.sessionId

\* C8: completeSession() invoked with sessionId = null issues no write and
\* changes neither the controller's state nor the table.
C8_CompleteWithoutSessionIsNoOp ==
    (last.op = "completeSession" /\ last.sessionId = NULL) =>
        /\ inflight = last.inflight
        /\ pomodoro_sessions = last.rows
        /\ isRunning = last.isRunning /\ timeLeft = last.timeLeft
        /\ sessionId = last.sessionId

C8_Witness ==
    /\ last.op = "completeSession" /\ last.sessionId = NULL
    /\ \E i \in DOMAIN pomodoro_sessions :
          i \in ownRows /\ pomodoro_sessions[i].completed
    /\ Count(inflight, "completeSession") = 0

\* C9: whenever isRunning holds, sessionId is the id of a row of the table
\* that the mounted controller inserted.
C9_RunningHasSession ==
    isRunning => /\ sessionId # NULL
                 /\ sessionId \in DOMAIN pomodoro_sessions
                 /\ sessionId \in ownRows

C9_Witness ==
    /\ isRunning /\ timeLeft < duration /\ timeLeft > 0
    /\ sessionId \in ownRows

\* C10: when the countdown is at zero with the completion write of the open
\* session in flight and the controller paused, the toggleTimer that resumes it
\* issues one more completion write for the same session id.
C10_ResumeAtZeroDuplicatesWrite ==
    (/\ last.op = "toggleTimer" /\ ~last.isRunning /\ last.timeLeft = 0
     /\ last.sessionId # NULL
     /\ CopiesIn(CompleteCall(last.sessionId), last.inflight) >= 1) =>
        CopiesIn(CompleteCall(last.sessionId), inflight)
            = CopiesIn(CompleteCall(last.sessionId), last.inflight) + 1

C10_Witness ==
    /\ last.op = "toggleTimer" /\ ~last.isRunning
    /\ isRunning /\ timeLeft = 0 /\ sessionId # NULL
    /\ CopiesIn(CompleteCall(sessionId), inflight) >= 2

\* C11: the tick timer is cleared on reset, on unmount and when the countdown
\* reaches zero: timeLeft stays within 0..duration, a live timer implies a
\* mounted, running controller with timeLeft > 0, and timeLeft goes down by
\* one only in a tick taken with isRunning and timeLeft > 0.
C11_TimerClearedAndBounded ==
    /\ timeLeft \in 0..duration
    /\ interval => (mounted /\ isRunning /\ timeLeft > 0)
    /\ last.op \in {"resetTimer", "unmount"} => ~interval
    /\ timeLeft = last.timeLeft - 1 =>
         (last.op = "tick" /\ last.isRunning /\ last.timeLeft > 0)
    /\ last.op = "tick" => timeLeft = last.timeLeft - 1

\* The last tick: the countdown reached zero and the timer is gone.
C11_Witness ==
    /\ last.op = "tick" /\ last.timeLeft = 1
    /\ timeLeft = 0 /\ isRunning /\ ~interval

(* ------------------------------------------------- claims on the Header *)

\* loadNotifications has just set the list: hlast holds what the call read.
Loaded == hlast.op = "loadNotifications.done"

\* The notifications of a list that carry the id.
WithId(ns, id) == {i \in DOMAIN ns : ns[i].id = id}

\* The notifications of a list that come from a source.
FromSource(ns, source) == {i \in DOMAIN ns : ns[i].id[1] = source}

\* The exams that qualify for the call hlast describes.
FutureExams ==
    {i \in DOMAIN exams :
        exams[i].user_id = hlast.uid /\ exams[i].exam_date >= hlast.tE}

\* C12 as stated: after a load whose exams query succeeded, every exam of the
\* user with exam_date >= now (the time of the exams query) has exactly one
\* notification exam-<id>, and every exam with exam_date < now has none.
C12_EveryFutureExamNotified ==
    (Loaded /\ hlast.resE.ok) =>
        \A i \in DOMAIN exams :
            Cardinality(WithId(notifications, NotifId("exam", i)))
                = IF i \in FutureExams THEN 1 ELSE 0

\* C12, amended: after a load whose exams query succeeded, no exam has more
\* than one notification exam-<id>, an exam with exam_date < now has none, and
\* of the exams with exam_date >= now all have one when at most QueryLimit
\* qualify, and exactly QueryLimit of them have one otherwise.
C12_FutureExamsNotifiedUpToLimit ==
    (Loaded /\ hlast.resE.ok) =>
        LET shown == {i \in DOMAIN exams :
                        WithId(notifications, NotifId("exam", i)) # {}}
        IN  /\ \A i \in DOMAIN exams :
                 Cardinality(WithId(notifications, NotifId("exam", i))) <= 1
            /\ shown \subseteq FutureExams
            /\ Cardinality(shown) = Min(Cardinality(FutureExams), QueryLimit)
            /\ Cardinality(FromSource(notifications, "exam")) = Cardinality(shown)

\* A load that shows future exams and leaves one out, because more exams
\* qualify than the query returns.
C12_Witness ==
    /\ Loaded /\ hlast.resE.ok
    /\ Cardinality(FutureExams) > QueryLimit
    /\ \E i \in FutureExams : WithId(notifications, NotifId("exam", i)) # {}
    /\ \E i \in FutureExams : WithId(notifications, NotifId("exam", i)) = {}

\* The tasks that are overdue, and those that are upcoming, for the call
\* hlast describes.
OverdueNow ==
    {i \in DOMAIN tasks :
        /\ tasks[i].user_id = hlast.uid /\ ~tasks[i].completed
        /\ tasks[i].due_date # NoDate /\ tasks[i].due_date < hlast.tO}

UpcomingNow ==
    {i \in DOMAIN tasks :
        /\ tasks[i].user_id = hlast.uid /\ ~tasks[i].completed
        /\ tasks[i].due_date # NoDate
        /\ tasks[i].due_date >= hlast.tU
        /\ tasks[i].due_date <= hlast.tU + Week * DAY}

\* The notifications of a list that are about the task i.
AboutTask(ns, i) ==
    WithId(ns, NotifId("overdue", i)) \cup WithId(ns, NotifId("upcoming", i))

\* C13 as stated: after a load whose overdue query succeeded, every task of
\* the user with completed = false and due_date < now (the time of the overdue
\* query) has exactly one notification overdue-<id>, and a completed task has
\* no notification at all.
C13_EveryOverdueTaskNotified ==
    (Loaded /\ hlast.resO.ok) =>
        \A i \in DOMAIN tasks :
            /\ i \in OverdueNow =>
                 Cardinality(WithId(notifications, NotifId("overdue", i))) = 1
            /\ tasks[i].completed => AboutTask(notifications, i) = {}

\* C13, amended: after a load, a completed task has no notification at all,
\* whatever its due date; if the overdue query succeeded, no task has more
\* than one notification overdue-<id>, only overdue open tasks have one, and
\* of these all have one when at most QueryLimit qualify, and exactly
\* QueryLimit of them have one otherwise.
C13_OverdueTasksNotifiedUpToLimit ==
    Loaded =>
        LET shown == {i \in DOMAIN tasks :
                        WithId(notifications, NotifId("overdue", i)) # {}}
        IN  /\ \A i \in DOMAIN tasks :
                 tasks[i].completed => AboutTask(notifications, i) = {}
            /\ hlast.resO.ok =>
                 /\ \A i \in DOMAIN tasks :
                      Cardinality(WithId(notifications, NotifId("overdue", i))) <= 1
                 /\ shown \subseteq OverdueNow
                 /\ Cardinality(shown) = Min(Cardinality(OverdueNow), QueryLimit)
                 /\ Cardinality(FromSource(notifications, "overdue")) = Cardinality(shown)

\* A load that shows an overdue task and nothing for a completed task whose
\* due date has passed as well.
C13_Witness ==
    /\ Loaded /\ hlast.resO.ok
    /\ \E i \in OverdueNow : WithId(notifications, NotifId("overdue", i)) # {}
    /\ \E i \in DOMAIN tasks :
          /\ tasks[i].completed
          /\ tasks[i].due_date # NoDate /\ tasks[i].due_date < hlast.tO
          /\ AboutTask(notifications, i) = {}

\* C14: a task has a notification upcoming-<id> only if it is open and
\* now <= due_date <= now + 7 days (now: the time of the upcoming query); the
\* upcoming notifications are in ascending order of due_date; the course in
\* their title is the task's course, or "General" when the task has none.
C14_UpcomingWindowOrderTitle ==
    Loaded =>
        /\ \A k \in FromSource(notifications, "upcoming") :
              LET i == notifications[k].id[2]
              IN  /\ i \in UpcomingNow
                  /\ notifications[k].title = "Upcoming Task"
                  /\ notifications[k].course =
                        IF tasks[i].course = NoCourse THEN "General"
                        ELSE tasks[i].course
        /\ \A k, l \in FromSource(notifications, "upcoming") :
              k < l => tasks[notifications[k].id[2]].due_date
                         <= tasks[notifications[l].id[2]].due_date

\* A load that shows two upcoming tasks with different due dates, one of them
\* without a course, while a task due later than the window is left out.
C14_Witness ==
    /\ Loaded
    /\ \E k, l \in FromSource(notifications, "upcoming") :
          /\ k < l
          /\ tasks[notifications[k].id[2]].due_date
                < tasks[notifications[l].id[2]].due_date
          /\ notifications[k].course = "General"
          /\ notifications[l].course = "Math"
    /\ \E i \in DOMAIN tasks :
          /\ ~tasks[i].completed
          /\ tasks[i].due_date > hlast.tU + Week * DAY
          /\ AboutTask(notifications, i) = {}

\* The rows of a table that the notifications of a source are about, in the
\* order of the list.
Shown(source) ==
    LET ks == SelectSeq([k \in DOMAIN notifications |-> k],
                        LAMBDA k : notifications[k].id[1] = source)
    IN  [n \in DOMAIN ks |-> notifications[ks[n]].id[2]]

\* A sequence of rows is in ascending order of date and holds the earliest of
\* the qualifying rows: no qualifying row left out is earlier than one shown.
EarliestAscending(rows, qualifying, date) ==
    /\ \A m, n \in DOMAIN rows : m < n => date[rows[m]] <= date[rows[n]]
    /\ \A n \in DOMAIN rows : rows[n] \in qualifying
    /\ \A i \in qualifying :
          (\A n \in DOMAIN rows : rows[n] # i) =>
              \A n \in DOMAIN rows : date[rows[n]] <= date[i]
    /\ Len(rows) = Min(Cardinality(qualifying), QueryLimit)

\* C15: each of the three sources contributes at most QueryLimit
\* notifications, so the list has at most three times as many; the exam
\* notifications are the QueryLimit qualifying exams with the earliest
\* exam_date, in ascending order, and the upcoming notifications are the
\* QueryLimit qualifying tasks with the earliest due_date.
C15_LimitPerSourceEarliestFirst ==
    Loaded =>
        LET examDate == [i \in DOMAIN exams |-> exams[i].exam_date]
            dueDate == [i \in DOMAIN tasks |-> tasks[i].due_date]
        IN  /\ Cardinality(FromSource(notifications, "exam")) <= QueryLimit
            /\ Cardinality(FromSource(notifications, "overdue")) <= QueryLimit
            /\ Cardinality(FromSource(notifications, "upcoming")) <= QueryLimit
            /\ Len(notifications) <= 3 * QueryLimit
            /\ hlast.resE.ok => EarliestAscending(Shown("exam"), FutureExams, examDate)
            /\ hlast.resU.ok => EarliestAscending(Shown("upcoming"), UpcomingNow, dueDate)

\* A load over more upcoming tasks than the limit: the latest one is left out.
C15_Witness ==
    /\ Loaded /\ hlast.resU.ok
    /\ Cardinality(UpcomingNow) > QueryLimit
    /\ Cardinality(FromSource(notifications, "upcoming")) = QueryLimit
    /\ \E i \in UpcomingNow :
          /\ AboutTask(notifications, i) = {}
          /\ \E k \in FromSource(notifications, "upcoming") :
                tasks[notifications[k].id[2]].due_date < tasks[i].due_date

\* The date of the row a notification with a day count is about.
DateOf(n) ==
    IF n.id[1] = "exam" THEN exams[n.id[2]].exam_date ELSE tasks[n.id[2]].due_date

\* C16: the day count in an exam or upcoming-task notification is the ceiling
\* of (date - now) in whole days, now being the time the list is built, and it
\* is never negative for an item of the list.
C16_DayCountCeilingNeverNegative ==
    Loaded =>
        \A k \in DOMAIN notifications :
            notifications[k].id[1] \in {"exam", "upcoming"} =>
                LET d == notifications[k].days[1]
                    span == DateOf(notifications[k]) - hlast.tB
                IN  /\ (d - 1) * DAY < span
                    /\ span <= d * DAY
                    /\ d >= 0

\* C17: the ids of the list are pairwise distinct, also when an exam and a
\* task have the same raw id.
C17_IdsDistinct ==
    \A k, l \in DOMAIN notifications :
        k # l => notifications[k].id # notifications[l].id

\* A list with an exam and a task of the same raw id.
C17_Witness ==
    \E k, l \in DOMAIN notifications :
        /\ notifications[k].id[1] = "exam"
        /\ notifications[l].id[1] \in {"overdue", "upcoming"}
        /\ notifications[k].id[2] = notifications[l].id[2]

\* The ids of the rows the three queries of the call hlast describes returned.
Returned ==
    {NotifId("exam", hlast.resE.rows[n].id) : n \in DOMAIN Rows(hlast.resE)}
        \cup {NotifId("overdue", hlast.resO.rows[n].id) : n \in DOMAIN Rows(hlast.resO)}
        \cup {NotifId("upcoming", hlast.resU.rows[n].id) : n \in DOMAIN Rows(hlast.resU)}

\* The row of a notification id qualifies for the call hlast describes, its
\* query succeeded and no more rows qualify than the query returns.
Qualifies(id) ==
    \/ /\ id[1] = "exam" /\ hlast.resE.ok
       /\ id[2] \in FutureExams /\ Cardinality(FutureExams) <= QueryLimit
    \/ /\ id[1] = "overdue" /\ hlast.resO.ok
       /\ id[2] \in OverdueNow /\ Cardinality(OverdueNow) <= QueryLimit
    \/ /\ id[1] = "upcoming" /\ hlast.resU.ok
       /\ id[2] \in UpcomingNow /\ Cardinality(UpcomingNow) <= QueryLimit

\* C18: removeNotification(id) takes exactly the item with that id out of the
\* list, leaves the other items and the stored rows as they are, and a later
\* loadNotifications over the same rows shows the dismissed item again: it is
\* in the list whenever its row is returned, as it is when the row still
\* qualifies and its query succeeds within its limit.
C18_DismissalIsLocalAndUndoneByReload ==
    /\ hlast.op = "removeNotification" =>
          /\ notifications = SelectSeq(hlast.notifications, LAMBDA n : n.id # hlast.id)
          /\ Len(notifications) = Len(hlast.notifications) - 1
          /\ <<exams, tasks, pomodoro_sessions>> = hlast.tables
    /\ (Loaded /\ dismissed # NoId) =>
          /\ dismissed \in Returned =>
                Cardinality(WithId(notifications, dismissed)) = 1
          /\ Qualifies(dismissed) => dismissed \in Returned

\* The page was loaded again after a dismissal, and the dismissed item is back.
C18_Witness ==
    /\ Loaded /\ dismissed # NoId
    /\ Cardinality(WithId(notifications, dismissed)) = 1

\* C19: without an authenticated user, loadNotifications and
\* loadDashboardData stop at their guard: no data query is issued, and the
\* notification list and the schedule stay empty.
C19_NoUserNoQueryNoData ==
    user = NoUser =>
        /\ npass.pc \in {"getUser", "nouser"} /\ npass.queries = 0
        /\ dpass.pc \in {"getUser", "nouser"} /\ dpass.queries = 0
        /\ notifications = <<>> /\ unreadCount = 0
        /\ schedule = <<>> /\ stats = StatsInit

\* Both loaders have returned at their guard, over tables that hold rows.
C19_Witness ==
    /\ user = NoUser
    /\ npass.pc = "nouser" /\ dpass.pc = "nouser"
    /\ Len(exams) + Len(tasks) > 0

\* C20: a notification query that fails contributes nothing, and the other
\* sources are shown in full: each source whose query succeeded has as many
\* notifications as rows qualify, up to the limit.
C20_FailedSourceEmptyOthersFull ==
    Loaded =>
        LET full(ok, qualifying) ==
                IF ok THEN Min(Cardinality(qualifying), QueryLimit) ELSE 0
        IN  /\ Cardinality(FromSource(notifications, "exam"))
                 = full(hlast.resE.ok, FutureExams)
            /\ Cardinality(FromSource(notifications, "overdue"))
                 = full(hlast.resO.ok, OverdueNow)
            /\ Cardinality(FromSource(notifications, "upcoming"))
                 = full(hlast.resU.ok, UpcomingNow)
            /\ Len(notifications)
                 = full(hlast.resE.ok, FutureExams) + full(hlast.resO.ok, OverdueNow)
                     + full(hlast.resU.ok, UpcomingNow)

\* The exams query failed over a table with a future exam; the overdue and
\* the upcoming task are shown all the same.
C20_Witness ==
    /\ Loaded
    /\ ~hlast.resE.ok /\ FutureExams # {}
    /\ hlast.resO.ok /\ FromSource(notifications, "overdue") # {}
    /\ hlast.resU.ok /\ FromSource(notifications, "upcoming") # {}

\* C28: in the list one loadNotifications pass builds, no task has both a
\* notification overdue-<id> and a notification upcoming-<id>, and a task
\* without a due_date has no notification at all.
C28_OverdueOrUpcomingNeverBoth ==
    Loaded =>
        \A i \in DOMAIN tasks :
            /\ \/ WithId(notifications, NotifId("overdue", i)) = {}
               \/ WithId(notifications, NotifId("upcoming", i)) = {}
            /\ tasks[i].due_date = NoDate => AboutTask(notifications, i) = {}

\* A pass over an open task without a due_date and a task that is listed,
\* both queries for tasks having succeeded.
C28_Witness ==
    /\ Loaded /\ hlast.resO.ok /\ hlast.resU.ok
    /\ \E i \in DOMAIN tasks : tasks[i].due_date = NoDate /\ ~tasks[i].completed
    /\ \E i \in DOMAIN tasks : AboutTask(notifications, i) # {}

\* C29: whatever loadNotifications and removeNotification calls have been
\* made, unreadCount is the length of the notifications list, and it is
\* never negative.
C29_UnreadCountIsListLength ==
    unreadCount = Len(notifications) /\ unreadCount >= 0

\* A dismissal from a list of two or more notifications.
C29_Witness ==
    /\ hlast.op = "removeNotification"
    /\ hlast.unreadCount >= 2
    /\ Len(notifications) = hlast.unreadCount - 1

\* The minute of the day a formatted HH:mm string stands for: strings of this
\* form are in lexicographic order exactly when their minutes are in order.
MinuteOf(time) == (time[1] * 10 + time[2]) * 60 + time[3] * 10 + time[4]

\* The timestamp of the row a schedule item was made from.
StampOf(item) ==
    IF item.type = "task" THEN tasks[item.id].due_date ELSE exams[item.id].exam_date

\* C22: the schedule loadDashboardData sets is in non-decreasing
\* lexicographic order of the items' HH:mm strings, whatever the days of
\* their timestamps and whether they are tasks or exams.
C22_ScheduleSortedByTimeString ==
    \A k, l \in DOMAIN schedule :
        k < l => MinuteOf(schedule[k].time) <= MinuteOf(schedule[l].time)

\* A schedule in which an exam stands before a task although its timestamp
\* is later: it is on a later day, at an earlier time of day.
C22_Witness ==
    /\ dpass.pc = "done"
    /\ \E k, l \in DOMAIN schedule :
          /\ k < l
          /\ schedule[k].type = "exam" /\ schedule[l].type = "task"
          /\ StampOf(schedule[k]) > StampOf(schedule[l])
          /\ MinuteOf(schedule[k].time) < MinuteOf(schedule[l].time)

(* ------------------------------------------------------------- liveness *)

\* Session s is completed and the controller is back in Idle.
Completed(s) ==
    /\ s <= Len(pomodoro_sessions)
    /\ pomodoro_sessions[s].completed
    /\ pomodoro_sessions[s].completed_at = "now"
    /\ Idle /\ timeLeft = duration

\* A toggle or a reset has just occurred: toggleTimer was invoked or has set
\* the state after its insert, or resetTimer was invoked, by the user or by
\* the completion of another session than s.
Interfered(s) ==
    \/ last.op \in {"toggleTimer", "toggleTimer.ok", "resetTimer"}
    \/ last.op = "completeSession.ok" /\ last.sid # s

\* C24: once session s is running, with completion writes that succeed,
\* either a toggle or a reset occurs or eventually the row of s is marked
\* completed, with completed_at set, and the controller is Idle again with
\* the full duration left.
C24_StartedSessionCompletes ==
    \A s \in 1..MaxRows :
        (isRunning /\ sessionId = s) ~> (Completed(s) \/ Interfered(s))

\* A session has counted down without a toggle or a reset and its completion
\* write has just succeeded.
C24_Witness ==
    /\ last.op = "completeSession.ok" /\ last.live
    /\ last.isRunning /\ last.timeLeft = 0 /\ last.sessionId = last.sid
    /\ Completed(last.sid)

(* ------------------------------------------------- resets and stale calls *)

\* C25: after resetTimer the controller stays Idle, with no timer alive,
\* until toggleTimer is invoked again; an insert that was pending when
\* resetTimer was invoked does not set it running when it is answered.
C25_IdleAfterResetUntilToggle == afterReset => Idle /\ ~interval

\* C26: a completion write that succeeds for a session which resetTimer has
\* abandoned, while the controller holds another session, leaves that
\* session's id, its running flag and its remaining time as they were.
C26_CompletionResetsOnlyItsSession ==
    (/\ last.op = "completeSession.ok" /\ last.live
     /\ last.sid \in abandoned
     /\ last.sessionId \notin {NULL, last.sid})
        => /\ sessionId = last.sessionId
           /\ isRunning = last.isRunning
           /\ timeLeft = last.timeLeft

\* C27: a row resetTimer left open when it cleared the session id is never
\* marked completed afterwards.
C27_AbandonedRowStaysOpen ==
    \A s \in abandoned : ~pomodoro_sessions[s].completed

(* ------------------------------------- claims on Tasks, Notes and Exams *)

\* The title of the destructive toast of a failed write.
ErrorTitle(op) ==
    CASE op = "handleSubmit.error" -> <<"Error creating", Noun(route)>>
      [] op = "toggle.error" -> <<"Error updating", Noun(route)>>
      [] OTHER -> <<"Error deleting", "note">>

\* C21: after a failed write of handleSubmit, toggleComplete, togglePin or
\* deleteNote the page shows the error notice, and the list, the dialog, the
\* form and the table are as they were before the answer; the call is over
\* and no load of the list has been issued.
C21_FailedWriteChangesNothing ==
    glast.op \in WriteErrors =>
        /\ notice = ErrorTitle(glast.op)
        /\ list = glast.list
        /\ open = glast.open
        /\ formData = glast.formData
        /\ TableOf(route) = glast.rows
        /\ calls = glast.calls (-) One(glast.call)

\* A submit failed while the dialog was open over a filled form.
C21_Witness ==
    /\ glast.op = "handleSubmit.error"
    /\ open /\ formData = FormFilled
    /\ notice = <<"Error creating", Noun(route)>>

\* C30 as stated: once exactly two toggles of a row have been invoked and
\* both have been written, the stored flag of the row is the one it had
\* before the first.
C30_TwoTogglesRestoreFlag ==
    (/\ pair.invoked = 2 /\ pair.written = 2
     /\ TableOf(route)[pair.id] # Gone)
        => FlagOf(route, TableOf(route)[pair.id]) = pair.orig

(* ------------------------------------------ claims on row level security *)

====
